---- MODULE Spec2Model ----
(***************************************************************************)
(* A model of the master's HTTP request plane (src/src/master/http.cpp):   *)
(* the operator-API event subscription, the scheduler endpoint and its     *)
(* stream identity, leader/recovery gating and redirection, and the        *)
(* mutating-operation pipeline.                                            *)
(*                                                                         *)
(* The master is one actor: every action below is one turn of that actor   *)
(* (an HTTP handler up to its first asynchronous call, or the deferred     *)
(* continuation of such a call), or a step of a collaborator (authorizer,  *)
(* allocator, agent, leader detector).                                     *)
(***************************************************************************)
EXTENDS Integers, Sequences, FiniteSets, TLC

None == "none"

\* An absent Mesos-Stream-Id (stream ids are positive).
NoStreamId == 0

\* A URL is its path (the sequence of its segments) and its query.
Url(path) == [path |-> path, query |-> None]

\* A response without Location header.
NoLocation == [host |-> None, port |-> None, url |-> Url(<< >>)]

(***************************************************************************)
(* Bounds of the model.                                                    *)
(***************************************************************************)
MaxVersion == 3
MaxSubscribers == 2
MaxHeartbeats == 1
MaxStreams == 2
MaxHandled == 1
MaxOffers == 2
MaxOps == 2
MaxBatch == 2
MaxWorkers == 2
MaxMaintenance == 3
MaxMarks == 2

(***************************************************************************)
(* HTTP status codes used by the handlers.                                 *)
(***************************************************************************)
OK == 200
Accepted == 202
TemporaryRedirect == 307
BadRequest == 400
Forbidden == 403
NotFound == 404
MethodNotAllowed == 405
NotAcceptable == 406
Conflict == 409
UnsupportedMediaType == 415
InternalServerError == 500
NotImplemented == 501
ServiceUnavailable == 503

Is2xx(code) == code \in 200..299

VARIABLES
  stateVersion,   \* number of master state changes made so far
  subscribers,    \* operator-API subscribers: status and the records on the pipe
  elected,        \* master->elected()
  leader,         \* master->leader: None or the leading master's MasterInfo
  recovered,      \* master->recovered->isReady()
  frameworks,     \* master->frameworks.registered
  dispatched,     \* history: number of calls handed to the master, per framework
  streamIds,      \* number of stream ids minted so far (id::UUID::random())
  issued,         \* history: the stream id last returned to each framework
  slaves,         \* master->slaves.registered
  offers,         \* outstanding offers: id -> [slave, framework, resources]
  offerIds,       \* number of offers created so far
  operations,     \* mutating operations in flight: id -> record
  opIds,          \* number of mutating requests received so far
  allocator,      \* history: offers handed to allocator->recoverResources
  rescinds,       \* history: rescind messages sent to frameworks
  applied,        \* history: operations handed to master->apply, per agent
  authorizations, \* history: operations in the order their authorization was handled
  batchedRequests, \* Master::Http::batchedRequests
  scheduled,      \* a dispatch of processRequestsBatch waits in the mailbox
  processing,     \* the master actor is inside processRequestsBatch
  workerThreads,  \* number of worker threads of the process
  machines,       \* master->machines: mode and unavailability per machine
  schedules,      \* master->maintenance.schedules
  maintenances,   \* maintenance requests: what they ask and how far they got
  shutdowns,      \* history: agents that were sent a ShutdownMessage
  clusterStatus,  \* the ClusterStatus in the response of the last step
  aborted,        \* a CHECK failed: the process is gone
  slaveSets,      \* master->slaves: recovered, unreachable, gone, markingGone,
                  \* removing, markingUnreachable
  goneCommits,    \* agents whose MarkSlaveGone is with the registrar
  marks,          \* history: per agent, the answers to its mark-gone requests
  stringQueue,    \* a process::Queue<string>, its futures and the values put
  uri,            \* a string, the URI parsed from it and its serialization
  adaptor,        \* the UriVolumeProfileAdaptorProcess and its watchers
  response        \* the response (if any) produced by the last step

vars == <<stateVersion, subscribers, elected, leader, recovered, frameworks,
          dispatched, streamIds, issued, slaves, offers, offerIds, operations, opIds,
          allocator, rescinds, applied, authorizations, batchedRequests,
          scheduled, processing, workerThreads, machines, schedules,
          maintenances, shutdowns, clusterStatus, aborted, slaveSets,
          goneCommits, marks, stringQueue, uri, adaptor, response>>

subscriptionVars == <<stateVersion, subscribers>>
leaderVars == <<elected, leader, recovered>>
schedulerVars == <<frameworks, dispatched, streamIds, issued>>
operationVars == <<slaves, offers, offerIds, operations, opIds, allocator,
                   rescinds,
                   applied, authorizations>>

batchVars == <<batchedRequests, scheduled, processing, workerThreads>>
maintenanceVars == <<machines, schedules, maintenances, shutdowns,
                     clusterStatus, aborted>>
goneVars == <<slaveSets, goneCommits, marks>>
supportVars == <<stringQueue, uri, adaptor>>
otherVars == <<batchVars, maintenanceVars, goneVars, supportVars>>

\* What a step of one component leaves alone.
exceptSubscription == <<leaderVars, schedulerVars, operationVars, otherVars>>
exceptLeader == <<subscriptionVars, schedulerVars, operationVars, otherVars>>
exceptScheduler == <<subscriptionVars, leaderVars, operationVars, otherVars>>
exceptOperations == <<subscriptionVars, leaderVars, schedulerVars, otherVars>>
exceptBatch == <<subscriptionVars, leaderVars, schedulerVars, operationVars,
                 maintenanceVars, goneVars, supportVars>>
exceptMaintenance == <<subscriptionVars, leaderVars, schedulerVars, batchVars,
                       goneVars, supportVars>>
exceptGone == <<subscriptionVars, leaderVars, schedulerVars, batchVars,
                supportVars>>
exceptSupport == <<subscriptionVars, leaderVars, schedulerVars,
                   operationVars, batchVars, maintenanceVars, goneVars>>

\* A response: the handler that produced it, the status code, the request it
\* answers, the Location header, whether the call was handed to its master
\* handler, the Mesos-Stream-Id header and the body.
Response(op, code, request) ==
  [op |-> op, code |-> code, request |-> request, location |-> NoLocation,
   dispatched |-> FALSE, streamId |-> NoStreamId, body |-> None,
   turn |-> 1 - response.turn]

\* A step that completes no response. (turn alternates with every step, so
\* that two successive steps are told apart.)
NoResponse == Response(None, 0, None)

InitResponse ==
  response = [op |-> None, code |-> 0, request |-> None, location |-> NoLocation,
              dispatched |-> FALSE, streamId |-> NoStreamId, body |-> None,
              turn |-> 0]

(***************************************************************************)
(* Operator API: SUBSCRIBE (Master::Http::subscribe).                      *)
(***************************************************************************)
SubscriberIds == 1..MaxSubscribers

SubscribedEvent(snapshot) == [type |-> "SUBSCRIBED", version |-> snapshot]
HeartbeatEvent == [type |-> "HEARTBEAT", version |-> 0]
StateEvent(v) == [type |-> "EVENT", version |-> v]

\* The snapshot taken by a stale (asynchronous) _getState: the state one
\* change earlier.
_getStateStale == IF stateVersion > 0 THEN stateVersion - 1 ELSE 0

\* _getState: synchronous; the master state as it is in this turn.
_getState == stateVersion

\* HttpConnection::send: a record is written to the pipe.
send(pipe, event) == Append(pipe, event)

InitSubscription ==
  /\ stateVersion = 0
  /\ subscribers = [s \in SubscriberIds |-> [status |-> None, pipe |-> <<>>]]

\* subscribe(): ObjectApprovers::create is started; the rest runs when the
\* approvers are ready.
subscribe(s) ==
  /\ subscribers[s].status = None
  /\ subscribers' = [subscribers EXCEPT ![s].status = "authorizing"]
  /\ response' = NoResponse
  /\ UNCHANGED stateVersion
  /\ UNCHANGED exceptSubscription

\* The continuation with HEARTBEAT written before SUBSCRIBED.
subscribeContinuationHeartbeatFirst(s) ==
  /\ subscribers[s].status = "authorizing"
  /\ LET pipe1 == send(<<>>, HeartbeatEvent)
         pipe2 == send(pipe1, SubscribedEvent(_getState))
     IN subscribers' = [subscribers EXCEPT ![s] =
                          [status |-> "subscribed", pipe |-> pipe2]]
  /\ response' = Response("subscribe", OK, s)
  /\ UNCHANGED stateVersion
  /\ UNCHANGED exceptSubscription

\* The deferred continuation of subscribe(): one turn of the master actor
\* that takes the snapshot, sends SUBSCRIBED and HEARTBEAT and registers the
\* subscriber (Master::subscribe).
subscribeContinuation(s) ==
  /\ subscribers[s].status = "authorizing"
  /\ LET pipe1 == send(<<>>, SubscribedEvent(_getState))
         pipe2 == send(pipe1, HeartbeatEvent)
     IN subscribers' = [subscribers EXCEPT ![s] =
                          [status |-> "subscribed", pipe |-> pipe2]]
  /\ response' = Response("subscribe", OK, s)
  /\ UNCHANGED stateVersion
  /\ UNCHANGED exceptSubscription

\* ObjectApprovers::create fails: the continuation never runs and the
\* failure is surfaced as 500.
subscribeAuthorizerFailed(s) ==
  /\ subscribers[s].status = "authorizing"
  /\ subscribers' = [subscribers EXCEPT ![s].status = "failed"]
  /\ response' = Response("subscribe", InternalServerError, s)
  /\ UNCHANGED stateVersion
  /\ UNCHANGED exceptSubscription

\* A change of master state (task, framework or agent added, updated or
\* removed): the master sends one event to every registered subscriber.
MasterStateChange ==
  /\ stateVersion < MaxVersion
  /\ stateVersion' = stateVersion + 1
  /\ subscribers' =
       [s \in SubscriberIds |->
          IF subscribers[s].status = "subscribed"
            THEN [subscribers[s] EXCEPT
                    !.pipe = send(@, StateEvent(stateVersion + 1))]
            ELSE subscribers[s]]
  /\ response' = NoResponse
  /\ UNCHANGED exceptSubscription

Heartbeats(pipe) ==
  Cardinality({i \in 1..Len(pipe) : pipe[i].type = "HEARTBEAT"})

\* The heartbeater started by Master::subscribe writes a HEARTBEAT.
Heartbeat(s) ==
  /\ subscribers[s].status = "subscribed"
  /\ Heartbeats(subscribers[s].pipe) <= MaxHeartbeats
  /\ subscribers' = [subscribers EXCEPT ![s].pipe = send(@, HeartbeatEvent)]
  /\ response' = NoResponse
  /\ UNCHANGED stateVersion
  /\ UNCHANGED exceptSubscription

(***************************************************************************)
(* Leadership and recovery state of the master.                            *)
(***************************************************************************)
\* master->info_: the MasterInfo of this master.
selfInfo == [hostname |-> "master-host", resolves |-> TRUE, port |-> "5050"]

\* master->leader is None.
NoLeader == [hostname |-> None, resolves |-> FALSE, port |-> None]

\* What the leader detector may report: no leader, this master, or another
\* master. The hostname field of a MasterInfo is optional; without it the
\* IP is resolved (resolves), which may fail.
LeaderInfos ==
  {NoLeader, selfInfo,
   [hostname |-> "leader-host", resolves |-> TRUE, port |-> "5050"],
   [hostname |-> None, resolves |-> TRUE, port |-> "5050"],
   [hostname |-> None, resolves |-> FALSE, port |-> "5050"]}

\* The elected master, recovery completed.
InitLeaderElected ==
  /\ elected = TRUE
  /\ leader = selfInfo
  /\ recovered = TRUE

\* A master that takes itself for the leader whatever was detected.
masterElectedAlways == TRUE

\* master->elected()
masterElected == elected

\* A master that has just started: no leader detected yet.
InitLeaderStandby ==
  /\ elected = FALSE
  /\ leader = NoLeader
  /\ recovered = FALSE

\* The leader detector reports a leader. When it is this master,
\* elected() becomes true and recovery of the registry starts. (A master
\* that loses leadership exits; it serves no request afterwards.)
detected(info) ==
  /\ ~elected
  /\ info # leader
  /\ leader' = info
  /\ elected' = (info = selfInfo)
  /\ recovered' = FALSE
  /\ response' = NoResponse
  /\ UNCHANGED exceptLeader

\* master->recovered becomes ready.
recover ==
  /\ elected
  /\ ~recovered
  /\ recovered' = TRUE
  /\ response' = NoResponse
  /\ UNCHANGED <<elected, leader>>
  /\ UNCHANGED exceptLeader

(***************************************************************************)
(* HTTP requests.                                                          *)
(***************************************************************************)
Principals == {"alice", "bob"}

\* Option<Principal>: None, a principal that carries claims but no value, or
\* a principal with a value string.
NoValue == "novalue"
RequestPrincipals == {None, NoValue} \cup Principals

hasValue(principal) == principal \in Principals

MediaTypes == {"application/json", "application/x-protobuf",
               "application/recordio"}

\* Request::acceptsMediaType: true when the header is absent or admits the
\* media type. A present header is modelled by the set of types it admits.
NoHeader == {None}

acceptsMediaType(header, mediaType) ==
  header = NoHeader \/ mediaType \in header

(***************************************************************************)
(* Master::Http::redirect.                                                 *)
(*                                                                         *)
(* A URL path is the sequence of its segments: "/redirect" is              *)
(* <<"redirect">>, "/master/redirect" is <<"master", "redirect">> and      *)
(* "/redirect/" is <<"redirect", "">>. A Location is the base path         *)
(* //host:port and the URL appended to it (the empty path for the bare     *)
(* base path).                                                             *)
(***************************************************************************)
selfId == "master"

redirectPath == <<"redirect">>
masterRedirectPath == <<selfId, "redirect">>

\* strings::startsWith(path, prefix + "/")
startsWithDir(path, prefix) ==
  /\ Len(path) > Len(prefix)
  /\ SubSeq(path, 1, Len(prefix)) = prefix

\* info.has_hostname() ? info.hostname() : net::getHostname(ip)
leaderHostname(info) ==
  IF info.hostname # None THEN [error |-> FALSE, value |-> info.hostname]
  ELSE IF info.resolves THEN [error |-> FALSE, value |-> "resolved-host"]
  ELSE [error |-> TRUE, value |-> None]

Location(info, url) ==
  [host |-> leaderHostname(info).value, port |-> info.port, url |-> url]

\* redirect() that appends the request URL also for /redirect itself.
redirectAlwaysAppend(op, request) ==
  IF leader = NoLeader THEN Response(op, ServiceUnavailable, request)
  ELSE IF leaderHostname(leader).error
    THEN Response(op, InternalServerError, request)
  ELSE [Response(op, TemporaryRedirect, request) EXCEPT
          !.location = Location(leader, request.url)]

redirect(op, request) ==
  IF leader = NoLeader THEN Response(op, ServiceUnavailable, request)
  ELSE IF leaderHostname(leader).error
    THEN Response(op, InternalServerError, request)
  ELSE IF \/ request.url.path = redirectPath
          \/ request.url.path = masterRedirectPath
    THEN [Response(op, TemporaryRedirect, request) EXCEPT
            !.location = Location(leader, Url(<< >>))]
  ELSE IF \/ startsWithDir(request.url.path, redirectPath)
          \/ startsWithDir(request.url.path, masterRedirectPath)
    THEN Response(op, NotFound, request)
  ELSE [Response(op, TemporaryRedirect, request) EXCEPT
          !.location = Location(leader, request.url)]

(***************************************************************************)
(* Scheduler call validation (validation::scheduler::call::validate).      *)
(*                                                                         *)
(* A call is a record: initialized (all required protobuf fields set),     *)
(* type (None when absent), framework_id (None when absent), subscribe     *)
(* (present, and the FrameworkInfo's id and principal), payload (field of  *)
(* the call's type is present), uuid (parseable as 16 bytes), slave_id and *)
(* resource_provider_id (present).                                         *)
(***************************************************************************)
PayloadTypes == {"ACCEPT", "DECLINE", "ACCEPT_INVERSE_OFFERS",
                 "DECLINE_INVERSE_OFFERS", "KILL", "SHUTDOWN", "ACKNOWLEDGE",
                 "ACKNOWLEDGE_OPERATION_STATUS", "RECONCILE",
                 "RECONCILE_OPERATIONS", "MESSAGE", "REQUEST"}

BareTypes == {"TEARDOWN", "REVIVE", "SUPPRESS", "UNKNOWN"}

\* A validation that finds no error.
validateNothing(call, principal) == None

validate(call, principal) ==
  IF ~call.initialized THEN "Not initialized"
  ELSE IF call.type = None THEN "Expecting 'type' to be present"
  ELSE IF call.type = "SUBSCRIBE" THEN
    IF ~call.subscribe.present THEN "Expecting 'subscribe' to be present"
    ELSE IF call.subscribe.id # call.framework_id
      THEN "'framework_id' differs from 'subscribe.framework_info.id'"
    ELSE IF /\ principal # None
            /\ call.subscribe.principal # None
            /\ principal # call.subscribe.principal
      THEN "Authenticated principal does not match principal"
    ELSE None
  ELSE IF call.framework_id = None
    THEN "Expecting 'framework_id' to be present"
  ELSE IF call.type \in BareTypes THEN None
  ELSE IF ~call.payload THEN "Expecting the call's field to be present"
  ELSE IF call.type = "ACKNOWLEDGE" THEN
    IF ~call.uuid THEN "UUID error" ELSE None
  ELSE IF call.type = "ACKNOWLEDGE_OPERATION_STATUS" THEN
    IF ~call.uuid THEN "UUID error"
    ELSE IF ~call.slave_id THEN "Expecting 'agent_id' to be present"
    ELSE IF ~call.resource_provider_id
      THEN "Expecting 'resource_provider_id' to be present"
    ELSE None
  ELSE None

(***************************************************************************)
(* The scheduler endpoint (Master::Http::scheduler).                       *)
(*                                                                         *)
(* A request is a record: principal, method, url, contentType (None when   *)
(* the header is absent), parses (the body decodes in that content type),  *)
(* call (the decoded call), accept (None, or the set of media types the    *)
(* Accept header admits) and streamId (the Mesos-Stream-Id header, None    *)
(* when absent).                                                           *)
(***************************************************************************)
FrameworkIds == {"f1", "f2"}

NoFramework ==
  [registered |-> FALSE, principal |-> None, connected |-> FALSE,
   http |-> NoStreamId]

InitScheduler ==
  /\ frameworks = [f \in FrameworkIds |-> NoFramework]
  /\ dispatched = [f \in FrameworkIds |-> 0]
  /\ streamIds = 0
  /\ issued = [f \in FrameworkIds |-> NoStreamId]

\* master->getFramework(id): nullptr is None.
getFramework(id) ==
  IF id \in FrameworkIds /\ frameworks[id].registered THEN id ELSE None

\* A generator that returns the same id again.
randomUUIDRepeats == IF streamIds > 1 THEN streamIds ELSE 1

\* id::UUID::random(): a stream id that was never returned before.
randomUUID == streamIds + 1

\* The conditions under which a non-SUBSCRIBE call reaches its handler.
frameworkResolves(request) == getFramework(request.call.framework_id) # None

principalMatches(request) ==
  \/ request.principal = None
  \/ request.principal = frameworks[request.call.framework_id].principal

connectedViaHttp(request) ==
  /\ frameworks[request.call.framework_id].connected
  /\ frameworks[request.call.framework_id].http # NoStreamId

streamIdMatches(request) ==
  /\ request.streamId # NoStreamId
  /\ request.streamId = frameworks[request.call.framework_id].http

\* A sequence of checks passes when it completes no response.
passes(checks) == checks.code = 0

\* The part of scheduler() that precedes the SUBSCRIBE branch: the response
\* of the first check that fails.
schedulerChecks(request) ==
  IF request.principal # None /\ ~hasValue(request.principal)
    THEN Response("scheduler", Forbidden, request)
  ELSE IF ~masterElected THEN redirect("scheduler", request)
  ELSE IF ~recovered THEN Response("scheduler", ServiceUnavailable, request)
  ELSE IF request.method # "POST"
    THEN Response("scheduler", MethodNotAllowed, request)
  ELSE IF request.contentType = None
    THEN Response("scheduler", BadRequest, request)
  ELSE IF request.contentType \notin
            {"application/x-protobuf", "application/json"}
    THEN Response("scheduler", UnsupportedMediaType, request)
  ELSE IF ~request.parses THEN Response("scheduler", BadRequest, request)
  ELSE IF validate(request.call, request.principal) # None
    THEN [Response("scheduler", BadRequest, request)
            EXCEPT !.body = validate(request.call, request.principal)]
  ELSE IF /\ request.call.type \in {"SUBSCRIBE", "RECONCILE_OPERATIONS"}
          /\ ~acceptsMediaType(request.accept, "application/json")
          /\ ~acceptsMediaType(request.accept, "application/x-protobuf")
    THEN Response("scheduler", NotAcceptable, request)
  ELSE NoResponse

\* The dispatch of scheduler() without the comparison of the stream id.
schedulerDispatchAnyStream(request) ==
  IF request.call.type = "SUBSCRIBE" THEN
    IF request.streamId # NoStreamId
      THEN Response("scheduler", BadRequest, request)
    ELSE [Response("scheduler", OK, request) EXCEPT !.streamId = randomUUID]
  ELSE IF ~frameworkResolves(request)
    THEN Response("scheduler", BadRequest, request)
  ELSE IF ~principalMatches(request)
    THEN Response("scheduler", BadRequest, request)
  ELSE IF ~frameworks[request.call.framework_id].connected
    THEN Response("scheduler", Forbidden, request)
  ELSE IF frameworks[request.call.framework_id].http = NoStreamId
    THEN Response("scheduler", Forbidden, request)
  ELSE IF request.streamId = NoStreamId
    THEN Response("scheduler", BadRequest, request)
  ELSE IF request.call.type = "UNKNOWN"
    THEN Response("scheduler", NotImplemented, request)
  ELSE IF request.call.type = "RECONCILE_OPERATIONS"
    THEN [Response("scheduler", OK, request) EXCEPT !.dispatched = TRUE]
  ELSE [Response("scheduler", Accepted, request) EXCEPT !.dispatched = TRUE]

\* The part of scheduler() from the SUBSCRIBE branch on: the response, with
\* the stream id minted for a SUBSCRIBE and whether the call is handed to
\* its handler.
schedulerDispatch(request) ==
  IF request.call.type = "SUBSCRIBE" THEN
    IF request.streamId # NoStreamId
      THEN Response("scheduler", BadRequest, request)
    ELSE [Response("scheduler", OK, request) EXCEPT !.streamId = randomUUID]
  ELSE IF ~frameworkResolves(request)
    THEN Response("scheduler", BadRequest, request)
  ELSE IF ~principalMatches(request)
    THEN Response("scheduler", BadRequest, request)
  ELSE IF ~frameworks[request.call.framework_id].connected
    THEN Response("scheduler", Forbidden, request)
  ELSE IF frameworks[request.call.framework_id].http = NoStreamId
    THEN Response("scheduler", Forbidden, request)
  ELSE IF request.streamId = NoStreamId
    THEN Response("scheduler", BadRequest, request)
  ELSE IF request.streamId # frameworks[request.call.framework_id].http
    THEN Response("scheduler", BadRequest, request)
  ELSE IF request.call.type = "UNKNOWN"
    THEN Response("scheduler", NotImplemented, request)
  ELSE IF request.call.type = "RECONCILE_OPERATIONS"
    THEN [Response("scheduler", OK, request) EXCEPT !.dispatched = TRUE]
  ELSE [Response("scheduler", Accepted, request) EXCEPT !.dispatched = TRUE]

schedulerResponse(request) ==
  IF ~passes(schedulerChecks(request)) THEN schedulerChecks(request)
  ELSE schedulerDispatch(request)

\* A scheduler() that leaves the FrameworkInfo as it was sent.
subscribePrincipalAsSent(request) == request.call.subscribe.principal

\* The FrameworkInfo principal after scheduler() has filled in the
\* authenticated principal.
subscribePrincipal(request) ==
  IF request.principal # None /\ request.call.subscribe.principal = None
    THEN request.principal
  ELSE request.call.subscribe.principal

\* Master::subscribe(http, subscribe): the connection is registered in the
\* framework record, replacing a prior connection. A framework without id
\* is given a free one.
subscribedId(request) ==
  IF request.call.framework_id # None THEN request.call.framework_id
  ELSE IF \E f \in FrameworkIds : ~frameworks[f].registered
    THEN CHOOSE f \in FrameworkIds :
           ~frameworks[f].registered
  ELSE None

masterSubscribe(request, streamId) ==
  LET f == subscribedId(request) IN
  /\ f # None
  /\ frameworks' = [frameworks EXCEPT ![f] =
       [registered |-> TRUE,
        principal |-> IF @.registered THEN @.principal
                      ELSE subscribePrincipal(request),
        connected |-> TRUE,
        http |-> streamId]]
  /\ issued' = [issued EXCEPT ![f] = streamId]

\* The master handlers of the scheduler calls: TEARDOWN removes the
\* framework; the other calls act on the framework's offers and tasks.
masterHandle(request) ==
  LET f == request.call.framework_id IN
  /\ dispatched[f] < MaxHandled
  /\ dispatched' = [dispatched EXCEPT ![f] = @ + 1]
  /\ frameworks' = IF request.call.type = "TEARDOWN"
                     THEN [frameworks EXCEPT ![f] = NoFramework]
                     ELSE frameworks

scheduler(request) ==
  LET r == schedulerResponse(request) IN
  /\ response' = r
  /\ IF r.streamId # NoStreamId
       THEN /\ streamIds < MaxStreams
            /\ streamIds' = streamIds + 1
            /\ masterSubscribe(request, r.streamId)
            /\ UNCHANGED dispatched
     ELSE IF r.dispatched
       THEN /\ masterHandle(request)
            /\ UNCHANGED <<streamIds, issued>>
     ELSE UNCHANGED schedulerVars
  /\ UNCHANGED exceptScheduler

\* A scheduler driver registers over a PID connection (no HTTP connection).
registerFramework(f, principal) ==
  /\ ~frameworks[f].registered
  /\ frameworks' = [frameworks EXCEPT ![f] =
       [registered |-> TRUE, principal |-> principal, connected |-> TRUE,
        http |-> NoStreamId]]
  /\ response' = NoResponse
  /\ UNCHANGED <<dispatched, streamIds, issued>>
  /\ UNCHANGED exceptScheduler

\* The framework's connection is lost: the framework stays registered but
\* is no longer connected, and its HTTP connection is closed.
disconnect(f) ==
  /\ frameworks[f].registered
  /\ frameworks[f].connected
  /\ frameworks' = [frameworks EXCEPT ![f].connected = FALSE,
                                       ![f].http = NoStreamId]
  /\ response' = NoResponse
  /\ UNCHANGED <<dispatched, streamIds, issued>>
  /\ UNCHANGED exceptScheduler

(***************************************************************************)
(* The mutating-operation pipeline: _reserve, _unreserve, _createVolumes,  *)
(* _destroyVolumes, growVolume, shrinkVolume and _operation.               *)
(*                                                                         *)
(* Resources are amounts per kind. The payload of a request is a record:   *)
(* type, slave_id, resources, addition (GROW_VOLUME only), upgradable      *)
(* (validateAndUpgradeResources succeeds) and valid                        *)
(* (validation::operation::validate succeeds).                             *)
(***************************************************************************)
SlaveIds == {"a1"}
Kinds == {"cpus", "mem"}
NoResources == [k \in Kinds |-> 0]

OperationTypes == {"RESERVE_RESOURCES", "UNRESERVE_RESOURCES",
                   "CREATE_VOLUMES", "DESTROY_VOLUMES", "GROW_VOLUME",
                   "SHRINK_VOLUME"}

\* Resources: operator+, operator- (what is not there cannot be taken) and
\* contains.
plus(a, b) == [k \in Kinds |-> a[k] + b[k]]
minus(a, b) == [k \in Kinds |-> IF a[k] > b[k] THEN a[k] - b[k] ELSE 0]
contains(a, b) == \A k \in Kinds : a[k] >= b[k]

\* The resources an operation requires from the agent, as each handler
\* passes them to _operation.
requiredResources(payload) ==
  IF payload.type = "GROW_VOLUME"
    THEN plus(payload.resources, payload.addition)
  ELSE payload.resources

InitOperations ==
  /\ slaves = [a \in SlaveIds |-> TRUE]
  /\ offers = << >>
  /\ offerIds = 0
  /\ operations = << >>
  /\ opIds = 0
  /\ allocator = << >>
  /\ rescinds = << >>
  /\ applied = << >>
  /\ authorizations = << >>

\* master->slaves.registered.get(slaveId) != nullptr
\* The state of a master that has just started: no agent is registered.
InitOperationsStandby ==
  /\ slaves = [a \in SlaveIds |-> FALSE]
  /\ offers = << >>
  /\ offerIds = 0
  /\ operations = << >>
  /\ opIds = 0
  /\ allocator = << >>
  /\ rescinds = << >>
  /\ applied = << >>
  /\ authorizations = << >>

registeredSlave(slaveId) == slaveId \in SlaveIds /\ slaves[slaveId]

\* The checks that _reserve and its siblings make before they ask the
\* authorizer: the response of the first check that fails.
operationChecks(op, request) ==
  IF /\ request.call.type \in {"CREATE_VOLUMES", "DESTROY_VOLUMES",
                                "GROW_VOLUME", "SHRINK_VOLUME"}
     /\ request.principal # None /\ ~hasValue(request.principal)
    THEN Response(op, Forbidden, request)
  ELSE IF ~registeredSlave(request.call.slave_id)
    THEN Response(op, BadRequest, request)
  ELSE IF ~request.call.upgradable THEN Response(op, BadRequest, request)
  ELSE IF ~request.call.valid THEN Response(op, BadRequest, request)
  ELSE NoResponse

\* The handler up to master->authorize...(): a rejected request is answered
\* at once; otherwise the authorizer is asked and the operation waits.
operationRequest(op, request) ==
  /\ UNCHANGED exceptOperations
  /\ IF ~passes(operationChecks(op, request))
       THEN /\ response' = operationChecks(op, request)
            /\ UNCHANGED operationVars
     ELSE /\ opIds < MaxOps
          /\ opIds' = opIds + 1
          /\ operations' = Append(operations,
               [request |-> request, op |-> op, status |-> "authorizing",
                authorized |-> "pending", rescinded |-> << >>,
                failure |-> None])
          /\ response' = NoResponse
          /\ UNCHANGED <<slaves, offers, offerIds, allocator, rescinds, applied,
                         authorizations>>

\* totalRecovered.apply(operation) succeeds: the recovered resources hold
\* what the operation consumes.
applies(totalRecovered, payload) ==
  contains(totalRecovered, requiredResources(payload))

\* A loop that rescinds every offer of the agent.
rescindLoopAll(order, i, required, totalRecovered, payload, rescinded) ==
  order

\* The rescind loop of _operation over the agent's offers, visited in
\* `order`: the offers rescinded, in the order they were rescinded.
RECURSIVE rescindLoop(_, _, _, _, _, _)
rescindLoop(order, i, required, totalRecovered, payload, rescinded) ==
  IF i > Len(order) THEN rescinded
  ELSE LET unallocated == offers[order[i]].resources IN
    IF required = minus(required, unallocated)
      THEN rescindLoop(order, i + 1, required, totalRecovered, payload,
                       rescinded)
    ELSE IF applies(plus(totalRecovered, unallocated), payload)
      THEN Append(rescinded, order[i])
    ELSE rescindLoop(order, i + 1, minus(required, unallocated),
                     plus(totalRecovered, unallocated), payload,
                     Append(rescinded, order[i]))

Range(seq) == {seq[i] : i \in 1..Len(seq)}

\* The orders in which the hashset slave->offers may be iterated.
offerOrders(slaveId) ==
  LET ids == {o \in DOMAIN offers : offers[o].slave = slaveId} IN
  {order \in [1..Cardinality(ids) -> ids] : Range(order) = ids}

\* master->removeOffer(offer, true) for each rescinded offer.
removeOffers(ids) == [o \in (DOMAIN offers) \ ids |-> offers[o]]

\* Offers removed without a word to the frameworks that hold them.
rescindMessagesNone(rescinded) == << >>

\* master->removeOffer(offer, true) rescinds: the framework that holds the
\* offer is sent a rescind message for it.
rescindMessages(rescinded) ==
  [i \in 1..Len(rescinded) |->
     [framework |-> offers[rescinded[i]].framework, offer |-> rescinded[i]]]

\* An operation handed to master->apply twice.
submitTwice(queue, id) == queue \o <<id, id>>

\* An operation handed to master->apply ahead of those submitted before.
submitFirst(queue, id) == <<id>> \o queue

\* master->apply(slave, operation): the operation joins those submitted to
\* the agent, behind the earlier ones.
submit(queue, id) == Append(queue, id)

\* _operation that rescinds and applies before it looks the agent up.
_operationLookupLast(id, order) ==
  LET request == operations[id].request
      rescinded == rescindLoop(order, 1, requiredResources(request.call),
                               NoResources, request.call, << >>)
  IN
  /\ offers' = removeOffers(Range(rescinded))
  /\ allocator' = allocator \o rescinded
  /\ rescinds' = rescinds \o rescindMessages(rescinded)
  /\ applied' = submit(applied, id)
  /\ IF ~registeredSlave(request.call.slave_id)
       THEN /\ response' = Response(operations[id].op, BadRequest, request)
            /\ operations' = [operations EXCEPT ![id].status = "rejected",
                                                 ![id].authorized = "granted"]
     ELSE /\ response' = NoResponse
          /\ operations' = [operations EXCEPT ![id].status = "applying",
                                               ![id].authorized = "granted",
                                               ![id].rescinded = rescinded]
  /\ UNCHANGED <<slaves, offerIds, opIds>>

\* _operation: the agent is looked up again; its offers are rescinded until
\* the recovered resources cover the operation; the operation is handed to
\* master->apply, whose result becomes the response later.
_operation(id, order) ==
  LET request == operations[id].request IN
  IF ~registeredSlave(request.call.slave_id)
    THEN /\ response' = Response(operations[id].op, BadRequest, request)
         /\ operations' = [operations EXCEPT ![id].status = "rejected",
                                              ![id].authorized = "granted"]
         /\ UNCHANGED <<slaves, offers, offerIds, opIds, allocator, rescinds,
                        applied>>
  ELSE LET rescinded == rescindLoop(order, 1,
                          requiredResources(request.call), NoResources,
                          request.call, << >>)
       IN
       /\ offers' = removeOffers(Range(rescinded))
       /\ allocator' = allocator \o rescinded
       /\ rescinds' = rescinds \o rescindMessages(rescinded)
       /\ applied' = submit(applied, id)
       /\ operations' = [operations EXCEPT ![id].status = "applying",
                                            ![id].authorized = "granted",
                                            ![id].rescinded = rescinded]
       /\ response' = NoResponse
       /\ UNCHANGED <<slaves, offerIds, opIds>>

\* The continuation deferred to the master actor when the authorizer has
\* answered.
authorizationResult(id, authorized) ==
  /\ id \in 1..opIds
  /\ operations[id].status = "authorizing"
  /\ authorizations' = Append(authorizations, id)
  /\ IF ~authorized
       THEN /\ response' = Response(operations[id].op, Forbidden,
                                     operations[id].request)
            /\ operations' = [operations EXCEPT ![id].status = "rejected",
                                                 ![id].authorized = "denied"]
            /\ UNCHANGED <<slaves, offers, offerIds, opIds, allocator, rescinds,
                           applied>>
     ELSE \E order \in offerOrders(operations[id].request.call.slave_id) :
            _operation(id, order)
  /\ UNCHANGED exceptOperations

\* The authorizer's future fails: the continuation never runs.
authorizationFailed(id) ==
  /\ id \in 1..opIds
  /\ operations[id].status = "authorizing"
  /\ operations' = [operations EXCEPT ![id].status = "failed"]
  /\ response' = Response(operations[id].op, InternalServerError,
                           operations[id].request)
  /\ UNCHANGED <<slaves, offers, offerIds, opIds, allocator, rescinds, applied,
                 authorizations>>
  /\ UNCHANGED exceptOperations

Failures == {"insufficient resources"}

\* The future of master->apply completes: Nothing becomes Accepted, a
\* failure becomes Conflict carrying the failure.
applyResult(id, failure) ==
  /\ id \in 1..opIds
  /\ operations[id].status = "applying"
  /\ operations' = [operations EXCEPT ![id].status = "done",
                                       ![id].failure = failure]
  /\ response' =
       IF failure = None
         THEN Response(operations[id].op, Accepted, operations[id].request)
       ELSE [Response(operations[id].op, Conflict, operations[id].request)
               EXCEPT !.body = failure]
  /\ UNCHANGED <<slaves, offers, offerIds, opIds, allocator, rescinds, applied,
                 authorizations>>
  /\ UNCHANGED exceptOperations

\* The allocator offers resources of an agent to a framework.
offerResources(slaveId, framework, resources) ==
  /\ registeredSlave(slaveId)
  /\ offerIds < MaxOffers
  /\ resources # NoResources
  /\ offerIds' = offerIds + 1
  /\ offers' = [o \in (DOMAIN offers) \cup {offerIds + 1} |->
                  IF o = offerIds + 1
                    THEN [slave |-> slaveId, framework |-> framework,
                          resources |-> resources]
                  ELSE offers[o]]
  /\ response' = NoResponse
  /\ UNCHANGED <<slaves, operations, opIds, allocator, rescinds, applied,
                 authorizations>>
  /\ UNCHANGED exceptOperations

\* The agent is removed from the master (with its offers).
removeSlave(slaveId) ==
  /\ registeredSlave(slaveId)
  /\ slaves' = [slaves EXCEPT ![slaveId] = FALSE]
  /\ offers' = [o \in {o \in DOMAIN offers : offers[o].slave # slaveId} |->
                  offers[o]]
  /\ response' = NoResponse
  /\ UNCHANGED <<offerIds, operations, opIds, allocator, rescinds, applied,
                 authorizations>>
  /\ UNCHANGED exceptOperations

\* An agent registers; the master takes registrations once it is the
\* recovered leader.
addSlave(slaveId) ==
  /\ slaveId \in SlaveIds
  /\ elected
  /\ recovered
  /\ ~slaves[slaveId]
  /\ slaves' = [slaves EXCEPT ![slaveId] = TRUE]
  /\ response' = NoResponse
  /\ UNCHANGED <<offers, offerIds, operations, opIds, allocator, rescinds,
                 applied,
                 authorizations>>
  /\ UNCHANGED exceptOperations

(***************************************************************************)
(* The read-batching scheduler: deferBatchedRequest and                    *)
(* processRequestsBatch.                                                   *)
(*                                                                         *)
(* processRequestsBatch runs on the master actor, which holds one worker   *)
(* thread of the process for as long as it runs; every process::async call *)
(* is a task that needs a worker thread of its own to run.                 *)
(***************************************************************************)
ReadOnlyHandlers == {"state", "frameworks"}

InitBatch(threads) ==
  /\ batchedRequests = << >>
  /\ scheduled = FALSE
  /\ processing = FALSE
  /\ workerThreads = threads

\* A master actor that runs other events while a batch is processed.
actorFreeAlways == TRUE

\* process::await(responses).await() blocks the master actor: it runs no
\* other event before processRequestsBatch returns.
actorFree == ~processing

\* deferBatchedRequest that never dispatches processRequestsBatch.
deferBatchedRequestOnly(handler, request) ==
  /\ actorFree
  /\ Len(batchedRequests) < MaxBatch
  /\ batchedRequests' =
       Append(batchedRequests,
              [handler |-> handler, request |-> request, status |-> "queued",
               observed |-> << >>])
  /\ response' = NoResponse
  /\ UNCHANGED <<scheduled, processing, workerThreads>>
  /\ UNCHANGED exceptBatch

\* deferBatchedRequest: the request joins the batch; the first request of a
\* batch dispatches processRequestsBatch to the master.
deferBatchedRequest(handler, request) ==
  /\ actorFree
  /\ Len(batchedRequests) < MaxBatch
  /\ batchedRequests' =
       Append(batchedRequests,
              [handler |-> handler, request |-> request, status |-> "queued",
               observed |-> << >>])
  /\ scheduled' = IF batchedRequests = << >> THEN TRUE ELSE scheduled
  /\ response' = NoResponse
  /\ UNCHANGED <<processing, workerThreads>>
  /\ UNCHANGED exceptBatch

\* processRequestsBatch up to the await: one process::async per request.
processRequestsBatch ==
  /\ actorFree
  /\ scheduled
  /\ batchedRequests # << >>
  /\ batchedRequests' =
       [i \in 1..Len(batchedRequests) |->
          [batchedRequests[i] EXCEPT !.status = "async"]]
  /\ scheduled' = FALSE
  /\ processing' = TRUE
  /\ response' = NoResponse
  /\ UNCHANGED workerThreads
  /\ UNCHANGED exceptBatch

\* The worker threads in use: the one the blocked master actor holds and one
\* per running read handler.
busyThreads ==
  (IF processing THEN 1 ELSE 0)
  + Cardinality({i \in 1..Len(batchedRequests) :
                   batchedRequests[i].status = "running"})

\* A free worker thread picks an async task up: the read handler starts to
\* read the master's state.
workerStart(i) ==
  /\ i \in 1..Len(batchedRequests)
  /\ batchedRequests[i].status = "async"
  /\ busyThreads < workerThreads
  /\ batchedRequests' =
       [batchedRequests EXCEPT ![i].status = "running",
                               ![i].observed = Append(@, stateVersion)]
  /\ response' = NoResponse
  /\ UNCHANGED <<scheduled, processing, workerThreads>>
  /\ UNCHANGED exceptBatch

\* The read handler has serialized the state: its promise is set and the
\* response goes out.
workerFinish(i) ==
  /\ i \in 1..Len(batchedRequests)
  /\ batchedRequests[i].status = "running"
  /\ batchedRequests' =
       [batchedRequests EXCEPT ![i].status = "ready",
                               ![i].observed = Append(@, stateVersion)]
  /\ response' = Response(batchedRequests[i].handler, OK,
                           batchedRequests[i].request)
  /\ UNCHANGED <<scheduled, processing, workerThreads>>
  /\ UNCHANGED exceptBatch

\* The await of processRequestsBatch returns when every promise is set; the
\* batch is cleared and the master actor goes on.
processRequestsBatchReturns ==
  /\ processing
  /\ \A i \in 1..Len(batchedRequests) : batchedRequests[i].status = "ready"
  /\ batchedRequests' = << >>
  /\ processing' = FALSE
  /\ response' = NoResponse
  /\ UNCHANGED <<scheduled, workerThreads>>
  /\ UNCHANGED exceptBatch

\* Any other event of the master actor that changes its state.
actorEvent ==
  /\ actorFree
  /\ MasterStateChange

(***************************************************************************)
(* Maintenance: the schedule, machines going down and coming up, the       *)
(* status report.                                                          *)
(*                                                                         *)
(* A machine that master->machines does not hold is a machine in UP mode   *)
(* without unavailability: the handlers answer such a machine as they      *)
(* answer an UP one. A schedule is a sequence of windows, a window a set   *)
(* of machine ids with an unavailability.                                  *)
(***************************************************************************)
MachineIds == {"m1", "m2"}

\* The machine each agent runs on (master->machines[id].slaves).
machineOf == [a \in SlaveIds |-> "m1"]

machineSlaves(m) == {a \in SlaveIds : slaves[a] /\ machineOf[a] = m}

NoClusterStatus == [draining_machines |-> {}, down_machines |-> {}]

InitMaintenance ==
  /\ machines = [m \in MachineIds |->
                   [mode |-> "UP", unavailability |-> None]]
  /\ schedules = << >>
  /\ maintenances = << >>
  /\ shutdowns = {}
  /\ clusterStatus = NoClusterStatus
  /\ aborted = FALSE

windowMachines(schedule) ==
  UNION {schedule[i].machine_ids : i \in 1..Len(schedule)}

\* maintenance::validation::schedule: the schedule names no machine in DOWN
\* mode and drops no machine in DOWN mode.
validSchedule(schedule) ==
  /\ \A m \in windowMachines(schedule) : machines[m].mode # "DOWN"
  /\ \A m \in MachineIds \ windowMachines(schedule) :
       machines[m].mode # "DOWN"

\* A maintenance request as the master keeps it while the authorizer and the
\* registrar work.
Maintenance(op, request) ==
  [op |-> op, request |-> request, status |-> "authorizing"]

\* _updateMaintenanceSchedule: the schedule is validated against the
\* machines as they are now, then the authorizer is asked.
updateMaintenanceSchedule(request) ==
  /\ ~aborted
  /\ IF ~validSchedule(request.call.schedule)
       THEN /\ response' = Response("updateMaintenanceSchedule", BadRequest,
                                     request)
            /\ UNCHANGED maintenances
     ELSE /\ Len(maintenances) < MaxMaintenance
          /\ maintenances' =
               Append(maintenances,
                      Maintenance("updateMaintenanceSchedule", request))
          /\ response' = NoResponse
  /\ clusterStatus' = NoClusterStatus
  /\ UNCHANGED <<machines, schedules, shutdowns, aborted>>
  /\ UNCHANGED <<operationVars, exceptMaintenance>>

\* startMaintenance, machineDown, stopMaintenance, machineUp: the authorizer
\* is asked first.
machinesRequest(op, request) ==
  /\ ~aborted
  /\ Len(maintenances) < MaxMaintenance
  /\ maintenances' = Append(maintenances, Maintenance(op, request))
  /\ response' = NoResponse
  /\ clusterStatus' = NoClusterStatus
  /\ UNCHANGED <<machines, schedules, shutdowns, aborted>>
  /\ UNCHANGED <<operationVars, exceptMaintenance>>

\* A loop that checks the first machine of the request only.
machineChecksFirst(op, request, ids, i, mode, approved) ==
  IF machines[ids[1]].mode # mode THEN Response(op, BadRequest, request)
  ELSE IF ids[1] \notin approved THEN Response(op, Forbidden, request)
  ELSE NoResponse

\* The loop of _startMaintenance and _stopMaintenance over the machines of
\* the request: the answer for the first machine that is not in `mode` or
\* not among the machines the approvers approve.
RECURSIVE machineChecks(_, _, _, _, _, _)
machineChecks(op, request, ids, i, mode, approved) ==
  IF i > Len(ids) THEN NoResponse
  ELSE IF machines[ids[i]].mode # mode
    THEN Response(op, BadRequest, request)
  ELSE IF ids[i] \notin approved THEN Response(op, Forbidden, request)
  ELSE machineChecks(op, request, ids, i + 1, mode, approved)

\* The mode a machine must be in to go down or to come up.
requiredMode(op) == IF op = "startMaintenance" THEN "DRAINING" ELSE "DOWN"

\* The continuation that runs on the master when the approvers are there:
\* __updateMaintenanceSchedule, _startMaintenance or _stopMaintenance up to
\* master->registrar->apply.
approvers(id, approved) ==
  LET m == maintenances[id]
      checks ==
        IF m.op = "updateMaintenanceSchedule"
          THEN IF ~(windowMachines(m.request.call.schedule) \subseteq approved)
                 THEN Response(m.op, Forbidden, m.request)
               ELSE NoResponse
        ELSE machineChecks(m.op, m.request, m.request.call.machines, 1,
                           requiredMode(m.op), approved)
  IN
  /\ ~aborted
  /\ m.status = "authorizing"
  /\ response' = checks
  /\ maintenances' =
       [maintenances EXCEPT ![id].status =
          IF passes(checks) THEN "committing" ELSE "rejected"]
  /\ clusterStatus' = NoClusterStatus
  /\ UNCHANGED <<machines, schedules, shutdowns, aborted>>
  /\ UNCHANGED <<operationVars, exceptMaintenance>>

\* The unavailability of the first window of the schedule that names m.
firstUnavailability(schedule, m) ==
  LET i == CHOOSE i \in 1..Len(schedule) :
             /\ m \in schedule[i].machine_ids
             /\ \A j \in 1..(i - 1) : m \notin schedule[j].machine_ids
  IN schedule[i].unavailability

\* The unavailability of the last window of the schedule that names m.
lastUnavailability(schedule, m) ==
  LET i == CHOOSE i \in 1..Len(schedule) :
             /\ m \in schedule[i].machine_ids
             /\ \A j \in (i + 1)..Len(schedule) :
                  m \notin schedule[j].machine_ids
  IN schedule[i].unavailability

\* ___updateMaintenanceSchedule: a machine the schedule names keeps its mode
\* unless it is UP, and then it starts DRAINING; a machine the schedule does
\* not name goes back to UP; the new schedule replaces the stored ones.
___updateMaintenanceSchedule(schedule) ==
  /\ machines' =
       [m \in MachineIds |->
          IF m \in windowMachines(schedule)
            THEN IF machines[m].mode = "UP"
                   THEN [mode |-> "DRAINING",
                         unavailability |-> firstUnavailability(schedule, m)]
                 ELSE [machines[m] EXCEPT
                         !.unavailability = lastUnavailability(schedule, m)]
          ELSE [mode |-> "UP", unavailability |-> None]]
  /\ schedules' = <<schedule>>
  /\ UNCHANGED <<shutdowns, operationVars>>

\* Machines that go down with their agents left registered.
startMaintenanceKeepsAgents(ids) ==
  /\ machines' = [m \in MachineIds |->
                    IF m \in Range(ids)
                      THEN [machines[m] EXCEPT !.mode = "DOWN"]
                    ELSE machines[m]]
  /\ UNCHANGED <<schedules, shutdowns, operationVars>>

\* The continuation of _startMaintenance on the registrar's result: every
\* agent on the machines is told to shut down and is removed, then the
\* machines are DOWN.
startMaintenanceCommitted(ids) ==
  LET removed == UNION {machineSlaves(ids[i]) : i \in 1..Len(ids)} IN
  /\ shutdowns' = shutdowns \cup removed
  /\ slaves' = [a \in SlaveIds |-> slaves[a] /\ a \notin removed]
  /\ offers' = [o \in {o \in DOMAIN offers : offers[o].slave \notin removed}
                  |-> offers[o]]
  /\ machines' = [m \in MachineIds |->
                    IF m \in Range(ids)
                      THEN [machines[m] EXCEPT !.mode = "DOWN"]
                    ELSE machines[m]]
  /\ UNCHANGED <<schedules, offerIds, operations, opIds, allocator, rescinds,
                 applied, authorizations>>

\* Machines that come up and stay in the stored schedule.
deleteMachinesNone(schedule, updated) == schedule

\* A schedule without the machines that came up, without the windows that
\* became empty.
deleteMachines(schedule, updated) ==
  SelectSeq([i \in 1..Len(schedule) |->
               [schedule[i] EXCEPT !.machine_ids = @ \ updated]],
            LAMBDA window : window.machine_ids # {})

\* The continuation of _stopMaintenance on the registrar's result: the
\* machines are UP without unavailability and leave the stored schedules;
\* a schedule without windows is deleted.
stopMaintenanceCommitted(ids) ==
  /\ machines' = [m \in MachineIds |->
                    IF m \in Range(ids)
                      THEN [mode |-> "UP", unavailability |-> None]
                    ELSE machines[m]]
  /\ schedules' =
       SelectSeq([i \in 1..Len(schedules) |->
                    deleteMachines(schedules[i], Range(ids))],
                 LAMBDA schedule : schedule # << >>)
  /\ UNCHANGED <<shutdowns, operationVars>>

RegistrarResults == {"true", "false", "failed"}

\* Only __updateMaintenanceSchedule hangs CHECK_READY on the registrar's
\* future; a failed future of the other two fails the response.
checksReady(op) == op = "updateMaintenanceSchedule"

\* The registrar's future completes. CHECK_READY and CHECK(result) abort the
\* process; a continuation that runs changes the master's state and answers
\* OK.
registrarResult(id, result) ==
  LET m == maintenances[id] IN
  /\ ~aborted
  /\ m.status = "committing"
  /\ IF result = "failed" /\ ~checksReady(m.op)
       THEN /\ response' = Response(m.op, InternalServerError, m.request)
            /\ maintenances' = [maintenances EXCEPT ![id].status = "failed"]
            /\ UNCHANGED <<machines, schedules, shutdowns, aborted,
                           operationVars>>
     ELSE IF result # "true"
       THEN /\ aborted' = TRUE
            /\ response' = NoResponse
            /\ UNCHANGED <<machines, schedules, maintenances, shutdowns,
                           operationVars>>
     ELSE /\ response' = Response(m.op, OK, m.request)
          /\ maintenances' = [maintenances EXCEPT ![id].status = "done"]
          /\ UNCHANGED aborted
          /\ IF m.op = "updateMaintenanceSchedule"
               THEN ___updateMaintenanceSchedule(m.request.call.schedule)
             ELSE IF m.op = "startMaintenance"
               THEN startMaintenanceCommitted(m.request.call.machines)
             ELSE stopMaintenanceCommitted(m.request.call.machines)
  /\ clusterStatus' = NoClusterStatus
  /\ UNCHANGED exceptMaintenance

\* _getMaintenanceStatus with approvers that approve every machine: the
\* machines that are DRAINING and those that are DOWN.
_getMaintenanceStatus ==
  [draining_machines |-> {m \in MachineIds : machines[m].mode = "DRAINING"},
   down_machines |-> {m \in MachineIds : machines[m].mode = "DOWN"}]

getMaintenanceStatus(request) ==
  /\ ~aborted
  /\ clusterStatus' = _getMaintenanceStatus
  /\ response' = Response("getMaintenanceStatus", OK, request)
  /\ UNCHANGED <<machines, schedules, maintenances, shutdowns, aborted>>
  /\ UNCHANGED <<operationVars, exceptMaintenance>>

(***************************************************************************)
(* Mark agent gone.                                                        *)
(*                                                                         *)
(* Besides the registered agents the master knows an unreachable agent and *)
(* an agent recovered from the registry that has not registered again.     *)
(***************************************************************************)
AgentIds == SlaveIds \cup {"a2", "a3"}

InitGone ==
  /\ slaveSets = [recovered |-> {"a3"}, unreachable |-> {"a2"}, gone |-> {},
                  markingGone |-> {}, removing |-> {},
                  markingUnreachable |-> {}]
  /\ goneCommits = {}
  /\ marks = [a \in AgentIds |-> << >>]

\* _markAgentGone that does not look at markingGone.
markAgentGoneChecksNoMarking(request) ==
  LET slaveId == request.call.slave_id IN
  IF slaveId \in slaveSets.gone
    THEN Response("markAgentGone", OK, request)
  ELSE IF slaveId \in slaveSets.removing \cup slaveSets.markingUnreachable
    THEN Response("markAgentGone", ServiceUnavailable, request)
  ELSE IF ~(\/ registeredSlave(slaveId)
            \/ slaveId \in slaveSets.recovered
            \/ slaveId \in slaveSets.unreachable)
    THEN Response("markAgentGone", NotFound, request)
  ELSE NoResponse

\* The checks of _markAgentGone, in their order.
markAgentGoneChecks(request) ==
  LET slaveId == request.call.slave_id IN
  IF slaveId \in slaveSets.gone
    THEN Response("markAgentGone", OK, request)
  ELSE IF slaveId \in slaveSets.markingGone
    THEN Response("markAgentGone", ServiceUnavailable, request)
  ELSE IF slaveId \in slaveSets.removing
    THEN Response("markAgentGone", ServiceUnavailable, request)
  ELSE IF slaveId \in slaveSets.markingUnreachable
    THEN Response("markAgentGone", ServiceUnavailable, request)
  ELSE IF ~(\/ registeredSlave(slaveId)
            \/ slaveId \in slaveSets.recovered
            \/ slaveId \in slaveSets.unreachable)
    THEN Response("markAgentGone", NotFound, request)
  ELSE NoResponse

\* The answer to a request joins the agent's history, with whether a
\* transition of the agent was with the registrar when the request was
\* handled.
marked(slaveId, code) ==
  IF slaveId \in AgentIds
    THEN [marks EXCEPT ![slaveId] =
            Append(@, [code |-> code,
                       inProgress |->
                         slaveId \in goneCommits \cup slaveSets.removing
                                       \cup slaveSets.markingUnreachable])]
  ELSE marks

\* The continuation of markAgentGone on the approvers, and _markAgentGone
\* up to master->registrar->apply.
markAgentGone(request, approved) ==
  LET slaveId == request.call.slave_id
      checks == markAgentGoneChecks(request)
  IN
  /\ ~aborted
  /\ slaveId \in AgentIds => Len(marks[slaveId]) < MaxMarks
  /\ IF ~approved
       THEN /\ response' = Response("markAgentGone", Forbidden, request)
            /\ UNCHANGED goneVars
     ELSE IF ~passes(checks)
       THEN /\ response' = checks
            /\ marks' = marked(slaveId, checks.code)
            /\ UNCHANGED <<slaveSets, goneCommits>>
     ELSE /\ slaveSets' = [slaveSets EXCEPT !.markingGone = @ \cup {slaveId}]
          /\ goneCommits' = goneCommits \cup {slaveId}
          /\ marks' = marked(slaveId, 0)
          /\ response' = NoResponse
  /\ UNCHANGED <<operationVars, maintenanceVars, exceptGone>>

\* Master::markGone: the agent leaves the registered agents (with its
\* offers) and the agents being marked, and is gone.
markGone(slaveId) ==
  /\ slaves' = [slaves EXCEPT ![slaveId] = FALSE]
  /\ offers' = [o \in {o \in DOMAIN offers : offers[o].slave # slaveId} |->
                  offers[o]]
  /\ slaveSets' = [slaveSets EXCEPT !.markingGone = @ \ {slaveId},
                                    !.gone = @ \cup {slaveId}]

\* The registrar's future for MarkSlaveGone completes: a failed future is
\* fatal; otherwise the request is answered OK and the deferred continuation
\* marks the agent gone if it is registered, and returns if it is not.
markAgentGoneResult(request, result) ==
  LET slaveId == request.call.slave_id IN
  /\ ~aborted
  /\ slaveId \in goneCommits
  /\ IF result = "failed"
       THEN /\ aborted' = TRUE
            /\ response' = NoResponse
            /\ UNCHANGED <<goneVars, slaves, offers>>
     ELSE /\ goneCommits' = goneCommits \ {slaveId}
          /\ marks' = [marks EXCEPT ![slaveId] =
                         [i \in 1..Len(@) |->
                            IF @[i].code = 0 THEN [@[i] EXCEPT !.code = OK]
                            ELSE @[i]]]
          /\ response' = Response("markAgentGone", OK, request)
          /\ IF registeredSlave(slaveId)
               THEN markGone(slaveId)
             ELSE UNCHANGED <<slaves, offers, slaveSets>>
          /\ UNCHANGED aborted
  /\ UNCHANGED <<offerIds, operations, opIds, allocator, rescinds, applied,
                 authorizations>>
  /\ UNCHANGED <<machines, schedules, maintenances, shutdowns, clusterStatus>>
  /\ UNCHANGED exceptGone

\* The master starts to mark a registered agent unreachable, and the
\* registrar commits it.
markUnreachable(slaveId) ==
  /\ ~aborted
  /\ registeredSlave(slaveId)
  /\ slaveId \notin slaveSets.markingGone \cup slaveSets.markingUnreachable
  /\ slaveSets' = [slaveSets EXCEPT !.markingUnreachable = @ \cup {slaveId}]
  /\ response' = NoResponse
  /\ UNCHANGED <<goneCommits, marks>>
  /\ UNCHANGED <<operationVars, maintenanceVars, exceptGone>>

markUnreachableResult(slaveId) ==
  /\ ~aborted
  /\ slaveId \in slaveSets.markingUnreachable
  /\ slaveSets' = [slaveSets EXCEPT !.markingUnreachable = @ \ {slaveId},
                                    !.unreachable = @ \cup {slaveId}]
  /\ slaves' = [slaves EXCEPT ![slaveId] = FALSE]
  /\ offers' = [o \in {o \in DOMAIN offers : offers[o].slave # slaveId} |->
                  offers[o]]
  /\ response' = NoResponse
  /\ UNCHANGED <<goneCommits, marks>>
  /\ UNCHANGED <<offerIds, operations, opIds, allocator, rescinds, applied,
                 authorizations>>
  /\ UNCHANGED <<maintenanceVars, exceptGone>>

(***************************************************************************)
(* process::Queue<T>.                                                      *)
(*                                                                         *)
(* elements are the values that wait for a get, promises the futures that  *)
(* wait for a put (oldest first). futures records every future get()       *)
(* returned, in the order of the calls, and puts every value put, in the   *)
(* order of the calls.                                                     *)
(***************************************************************************)
MaxPuts == 3
MaxGets == 3

Values == {"hello", "world"}

InitQueue ==
  stringQueue = [elements |-> <<>>, promises |-> <<>>, futures |-> <<>>,
           puts |-> <<>>]

\* A put that completes the newest waiter.
putNewest(q, t) ==
  IF q.promises = <<>>
    THEN [q EXCEPT !.elements = Append(@, t), !.puts = Append(@, t)]
  ELSE [q EXCEPT
          !.futures[q.promises[Len(q.promises)]] =
            [state |-> "ready", value |-> t],
          !.promises = SubSeq(@, 1, Len(@) - 1),
          !.puts = Append(@, t)]

\* Queue::put: the value completes the oldest waiting future, or is
\* appended to the elements when no future waits.
put(q, t) ==
  IF q.promises = <<>>
    THEN [q EXCEPT !.elements = Append(@, t), !.puts = Append(@, t)]
  ELSE [q EXCEPT
          !.futures[Head(q.promises)] = [state |-> "ready", value |-> t],
          !.promises = Tail(@),
          !.puts = Append(@, t)]

\* Queue::get: a future that is ready with the oldest element, or a pending
\* future that joins the waiters.
get(q) ==
  IF q.elements = <<>>
    THEN [q EXCEPT
            !.futures = Append(@, [state |-> "pending", value |-> None]),
            !.promises = Append(@, Len(q.futures) + 1)]
  ELSE [q EXCEPT
          !.futures = Append(@, [state |-> "ready",
                                 value |-> Head(q.elements)]),
          !.elements = Tail(@)]

\* A discard that leaves the future among the waiters.
discardKeepsWaiter(q, i) ==
  IF q.futures[i].state = "pending"
    THEN [q EXCEPT !.futures[i].state = "discarded"]
  ELSE q

\* Future::discard on a future of get(): a pending future is discarded and
\* taken off the waiters; a ready future is left as it is.
discard(q, i) ==
  IF q.futures[i].state = "pending"
    THEN [q EXCEPT
            !.futures[i].state = "discarded",
            !.promises = SelectSeq(@, LAMBDA j : j # i)]
  ELSE q

queuePut(t) ==
  /\ Len(stringQueue.puts) < MaxPuts
  /\ stringQueue' = put(stringQueue, t)
  /\ response' = NoResponse
  /\ UNCHANGED <<uri, adaptor, exceptSupport>>

queueGet ==
  /\ Len(stringQueue.futures) < MaxGets
  /\ stringQueue' = get(stringQueue)
  /\ response' = NoResponse
  /\ UNCHANGED <<uri, adaptor, exceptSupport>>

queueDiscard(i) ==
  /\ i \in 1..Len(stringQueue.futures)
  /\ stringQueue' = discard(stringQueue, i)
  /\ response' = NoResponse
  /\ UNCHANGED <<uri, adaptor, exceptSupport>>

(***************************************************************************)
(* uri::URI (stout/uri.hpp).                                               *)
(*                                                                         *)
(* A string is the sequence of its characters. uriParseUriA is the parser  *)
(* of the uriparser library for the grammar of RFC 3986; its result is the *)
(* UriUriA record that URI::parse unpacks: a text range that is nullptr is *)
(* NoText, pathHead says whether there are path segments and pathText is   *)
(* the text from the first segment to the end of the last.                 *)
(***************************************************************************)
NoText == <<None>>
NoPort == -1
MaxPort == 65535

Letters == {"a", "f", "h", "p", "q"}
Digits == <<"0", "1", "2", "3", "4", "5", "6", "7", "8", "9">>
DigitChars == Range(Digits)

\* The position of the first of the characters in the string, 0 when none
\* occurs.
IndexOf(string, chars) ==
  IF \E i \in 1..Len(string) : string[i] \in chars
    THEN CHOOSE i \in 1..Len(string) :
           /\ string[i] \in chars
           /\ \A j \in 1..(i - 1) : string[j] \notin chars
  ELSE 0

From(string, i) == SubSeq(string, i, Len(string))
Upto(string, i) == SubSeq(string, 1, i)

\* The string cut at the first of the characters: whether one was found,
\* which, and the text before and after it.
split(string, chars) ==
  LET i == IndexOf(string, chars) IN
  [found |-> i > 0,
   char |-> IF i = 0 THEN None ELSE string[i],
   before |-> IF i = 0 THEN string ELSE Upto(string, i - 1),
   after |-> IF i = 0 THEN <<>> ELSE From(string, i + 1)]

\* The text range after a delimiter: nullptr when the delimiter is absent.
range(part) == IF part.found THEN part.after ELSE NoText

SyntaxError == [ok |-> FALSE]

\* [ ":" port ] with port = *DIGIT
parsePort(userInfo, hostText, ip6, afterHost) ==
  IF /\ afterHost # <<>>
     /\ \/ afterHost[1] # ":"
        \/ \E i \in 2..Len(afterHost) : afterHost[i] \notin DigitChars
    THEN SyntaxError
  ELSE [ok |-> TRUE, userInfo |-> userInfo, hostText |-> hostText,
        ip6 |-> ip6,
        portText |-> IF afterHost = <<>> THEN <<>> ELSE Tail(afterHost)]

\* host = IP-literal / reg-name; the brackets of an IP-literal are not part
\* of hostText.
parseHost(userInfo, hostPort) ==
  IF hostPort # <<>> /\ hostPort[1] = "["
    THEN LET literal == split(Tail(hostPort), {"]"}) IN
         IF ~literal.found THEN SyntaxError
         ELSE parsePort(userInfo, literal.before, TRUE, literal.after)
  ELSE LET name == split(hostPort, {":"}) IN
       parsePort(userInfo, name.before, FALSE,
                 IF name.found THEN <<":">> \o name.after ELSE <<>>)

\* authority = [ userinfo "@" ] host [ ":" port ]
parseAuthority(authority) ==
  LET user == split(authority, {"@"}) IN
  IF user.found THEN parseHost(user.before, user.after)
  ELSE parseHost(NoText, authority)

\* hier-part = "//" authority path-abempty / path-absolute / path-rootless
\*           / path-empty. After an authority every "/" starts a segment,
\* an empty one included; an absolute path without authority has the
\* segments that follow its first "/".
parseHierPart(scheme, hierPart, query, fragment) ==
  IF Len(hierPart) >= 2 /\ hierPart[1] = "/" /\ hierPart[2] = "/"
    THEN LET rest == split(From(hierPart, 3), {"/"})
             authority == parseAuthority(rest.before)
         IN
         IF ~authority.ok THEN SyntaxError
         ELSE [ok |-> TRUE, scheme |-> scheme,
               userInfo |-> authority.userInfo,
               hostText |-> authority.hostText,
               ip6 |-> authority.ip6,
               portText |-> authority.portText,
               absolutePath |-> FALSE,
               pathHead |-> rest.found,
               pathText |-> rest.after,
               query |-> query, fragment |-> fragment]
  ELSE IF hierPart # <<>> /\ hierPart[1] = "/"
    THEN [ok |-> TRUE, scheme |-> scheme,
          userInfo |-> NoText, hostText |-> NoText, ip6 |-> FALSE,
          portText |-> <<>>,
          absolutePath |-> TRUE,
          pathHead |-> Len(hierPart) > 1,
          pathText |-> Tail(hierPart),
          query |-> query, fragment |-> fragment]
  ELSE [ok |-> TRUE, scheme |-> scheme,
        userInfo |-> NoText, hostText |-> NoText, ip6 |-> FALSE,
        portText |-> <<>>,
        absolutePath |-> FALSE,
        pathHead |-> hierPart # <<>>,
        pathText |-> hierPart,
        query |-> query, fragment |-> fragment]

\* scheme = ALPHA *( ALPHA / DIGIT ), followed by ":"; a reference without
\* scheme has none (scheme.first is nullptr).
parseScheme(hier, query, fragment) ==
  LET first == split(hier, {":", "/"}) IN
  IF first.found /\ first.char = ":"
    THEN IF /\ first.before # <<>>
            /\ first.before[1] \in Letters
            /\ \A i \in 1..Len(first.before) :
                 first.before[i] \in Letters \cup DigitChars
           THEN parseHierPart(first.before, first.after, query, fragment)
         ELSE SyntaxError
  ELSE parseHierPart(NoText, hier, query, fragment)

\* URI = scheme ":" hier-part [ "?" query ] [ "#" fragment ]
uriParseUriA(value) ==
  LET fragment == split(value, {"#"})
      query == split(fragment.before, {"?"})
  IN parseScheme(query.before, range(query), range(fragment))

\* numify<uint16_t>: the number a string of decimal digits denotes.
RECURSIVE numify(_)
numify(string) ==
  IF string = <<>> THEN 0
  ELSE numify(Upto(string, Len(string) - 1)) * 10
         + (CHOOSE d \in 0..9 : Digits[d + 1] = string[Len(string)])

\* stream << port: the decimal digits of a number.
RECURSIVE decimal(_)
decimal(n) ==
  IF n < 10 THEN <<Digits[n + 1]>>
  ELSE decimal(n \div 10) \o <<Digits[(n % 10) + 1]>>

Error(message) == [error |-> message]

\* A path that is returned as uriparser gives it.
resultPathAsParsed(u) == u.pathText

\* The path of URI::parse: uriparser omits the leading slash, which is put
\* back when the path is absolute or there is a host.
resultPath(u) ==
  IF u.pathHead
    THEN (IF u.absolutePath \/ u.hostText # NoText THEN <<"/">> ELSE <<>>)
           \o u.pathText
  ELSE <<>>

\* URI::parse
parse(value) ==
  LET u == uriParseUriA(value) IN
  IF ~u.ok THEN Error("Failed to parse uri string")
  ELSE IF u.scheme = NoText THEN Error("Missing scheme in uri string")
  ELSE IF u.portText # <<>> /\ numify(u.portText) > MaxPort
    THEN Error("Failed to parse port")
  ELSE [error |-> None,
        scheme |-> u.scheme,
        user |-> u.userInfo,
        host |-> IF u.hostText = NoText THEN NoText
                 ELSE IF u.ip6 THEN <<"[">> \o u.hostText \o <<"]">>
                 ELSE u.hostText,
        port |-> IF u.portText = <<>> THEN NoPort ELSE numify(u.portText),
        path |-> resultPath(u),
        query |-> u.query,
        fragment |-> u.fragment]

\* operator<<(std::ostream&, const URI&)
stringify(result) ==
  result.scheme \o <<":">>
    \o (IF result.host # NoText
          THEN <<"/", "/">>
                 \o (IF result.user # NoText
                       THEN result.user \o <<"@">> ELSE <<>>)
                 \o result.host
                 \o (IF result.port # NoPort
                       THEN <<":">> \o decimal(result.port) ELSE <<>>)
        ELSE <<>>)
    \o result.path
    \o (IF result.query # NoText THEN <<"?">> \o result.query ELSE <<>>)
    \o (IF result.fragment # NoText
          THEN <<"#">> \o result.fragment ELSE <<>>)

InitUri == uri = [stage |-> "idle"]

\* URI::parse(value) is called on a string.
uriParse(input, value) ==
  /\ uri.stage = "idle"
  /\ uri' = [stage |-> "parsed", input |-> input, value |-> value,
             result |-> parse(value)]
  /\ response' = NoResponse
  /\ UNCHANGED <<stringQueue, adaptor, exceptSupport>>

\* stringify(uri.get()) is called on the URI that was parsed.
uriStringify ==
  /\ uri.stage = "parsed"
  /\ uri.result.error = None
  /\ uri' = [stage |-> "stringified", input |-> uri.input,
             value |-> uri.value, result |-> uri.result,
             text |-> stringify(uri.result)]
  /\ response' = NoResponse
  /\ UNCHANGED <<stringQueue, adaptor, exceptSupport>>


(***************************************************************************)
(* The URI volume profile adaptor (UriVolumeProfileAdaptorProcess).        *)
(*                                                                         *)
(* data maps the known profile names to their ProfileInfo (a capability    *)
(* and a map of parameters), profiles is the set of known names. watches   *)
(* records every future watch() returned, in the order of the calls.       *)
(* fetched and compared record what the last poll fetched and which        *)
(* parameter maps it compared, with the result. hangs tells that the       *)
(* process is inside a comparison that does not return.                    *)
(***************************************************************************)
MaxWatches == 2

ProfileNames == {"fast", "slow"}

BlockCapability ==
  [access_type |-> "block", fs_type |-> None, mount_flags |-> <<>>,
   access_mode |-> "SINGLE_NODE_WRITER"]
MountCapability ==
  [access_type |-> "mount", fs_type |-> "xfs", mount_flags |-> <<>>,
   access_mode |-> "SINGLE_NODE_WRITER"]

\* csi::operator==(VolumeCapability, VolumeCapability)
capabilityEquals(left, right) ==
  IF left.access_type # right.access_type THEN FALSE
  ELSE IF left.access_type = "mount" /\ left.fs_type # right.fs_type
    THEN FALSE
  ELSE IF left.access_type = "mount" /\ left.mount_flags # right.mount_flags
    THEN FALSE
  ELSE left.access_mode = right.access_mode

\* What a comparison that never advances its iterator may do: a loop
\* without side effects that does not end is undefined behaviour, so the
\* build may hang in it or leave it with either answer.
LoopOutcomes == {"hangs", "true", "false"}

\* operator==(Map<string, string>, Map<string, string>): the sizes are
\* compared, then the entry at left.begin() is looked up in `right`, again
\* and again, as the iterator is never advanced. `begin` is the key the
\* iteration of `left` starts at when `left` has it.
parametersEqual(left, right, begin, outcome) ==
  IF Cardinality(DOMAIN left) # Cardinality(DOMAIN right) THEN "false"
  ELSE IF DOMAIN left = {} THEN "true"
  ELSE LET iterator == IF begin \in DOMAIN left THEN begin
                       ELSE CHOOSE key \in DOMAIN left : TRUE
       IN IF iterator \notin DOMAIN right THEN "false"
          ELSE IF left[iterator] # right[iterator] THEN "false"
          ELSE outcome

NoFetched == [fetched |-> FALSE, parsed |-> <<>>]

InitAdaptor ==
  adaptor = [data |-> <<>>, profiles |-> {}, watches |-> <<>>,
             fetched |-> NoFetched, compared |-> {}, hangs |-> FALSE]

\* UriVolumeProfileAdaptorProcess::watch: the current set of names when it
\* differs from the known ones, the future of watchPromise otherwise.
watch(knownProfiles) ==
  /\ ~adaptor.hangs
  /\ Len(adaptor.watches) < MaxWatches
  /\ adaptor' =
       [adaptor EXCEPT !.watches =
          Append(@, IF adaptor.profiles # knownProfiles
                      THEN [known |-> knownProfiles, state |-> "ready",
                            value |-> adaptor.profiles, by |-> "watch"]
                    ELSE [known |-> knownProfiles, state |-> "pending",
                          value |-> {}, by |-> None])]
  /\ response' = NoResponse
  /\ UNCHANGED <<stringQueue, uri, exceptSupport>>

\* The known profiles that notify compares the parameters of: those the
\* fetched mapping has with an equal capability.
comparedProfiles(parsed) ==
  {profile \in DOMAIN adaptor.data :
     /\ profile \in DOMAIN parsed
     /\ capabilityEquals(adaptor.data[profile].capability,
                         parsed[profile].capability)}

comparisons(parsed, begin, outcome) ==
  {[left |-> adaptor.data[profile].parameters,
    right |-> parsed[profile].parameters,
    result |-> parametersEqual(adaptor.data[profile].parameters,
                               parsed[profile].parameters, begin, outcome)] :
     profile \in comparedProfiles(parsed)}

\* hasErrors of notify: a known profile is missing from the fetched mapping
\* or does not match the earlier data.
hasErrors(parsed, begin, outcome) ==
  \/ comparedProfiles(parsed) # DOMAIN adaptor.data
  \/ \E comparison \in comparisons(parsed, begin, outcome) :
       comparison.result = "false"

\* UriVolumeProfileAdaptorProcess::notify: a mapping with errors is ignored;
\* otherwise it becomes the data, the names are rebuilt and watchPromise is
\* set with them and replaced.
notify(parsed, begin, outcome) ==
  IF \E comparison \in comparisons(parsed, begin, outcome) :
       comparison.result = "hangs"
    THEN [adaptor EXCEPT !.hangs = TRUE]
  ELSE IF hasErrors(parsed, begin, outcome) THEN adaptor
  ELSE [adaptor EXCEPT
          !.data = parsed,
          !.profiles = DOMAIN parsed,
          !.watches =
            [i \in 1..Len(@) |->
               IF @[i].state = "pending"
                 THEN [@[i] EXCEPT !.state = "ready",
                                   !.value = DOMAIN parsed,
                                   !.by = "notify"]
               ELSE @[i]]]

\* UriVolumeProfileAdaptorProcess::_poll: what was fetched and parsed is
\* handed to notify; a failure to fetch or to parse is logged.
_poll(fetched, begin, outcome) ==
  /\ ~adaptor.hangs
  /\ adaptor' =
       IF fetched.fetched
         THEN [notify(fetched.parsed, begin, outcome) EXCEPT
                 !.fetched = fetched,
                 !.compared = comparisons(fetched.parsed, begin, outcome)]
       ELSE [adaptor EXCEPT !.fetched = fetched, !.compared = {}]
  /\ response' = NoResponse
  /\ UNCHANGED <<stringQueue, uri, exceptSupport>>

(***************************************************************************)
(* The operator API endpoint (Master::Http::api and _api).                 *)
(*                                                                         *)
(* The body is read between the checks of api() and _api; a master that    *)
(* got past the checks stays elected and recovered, so both run as one     *)
(* step here.                                                              *)
(***************************************************************************)
\* A master that takes no media type for a streaming one.
streamingMediaTypeNever(contentType) == FALSE

streamingMediaType(contentType) == contentType = "application/recordio"

\* A master that answers in JSON whatever the Accept header admits.
acceptTypeJson(request) == "application/json"

\* The media type api() chooses for the response; None when the Accept
\* header admits none.
acceptType(request) ==
  IF acceptsMediaType(request.accept, "application/json")
    THEN "application/json"
  ELSE IF acceptsMediaType(request.accept, "application/x-protobuf")
    THEN "application/x-protobuf"
  ELSE IF acceptsMediaType(request.accept, "application/recordio")
    THEN "application/recordio"
  ELSE None

\* call.error(): the body of the 400 that answers a body that does not
\* decode into a valid Call.
CallError == "call.error"

\* api() and the head of _api up to the switch over the call type: the
\* response of the first check that fails.
apiChecks(request) ==
  IF request.principal # None /\ ~hasValue(request.principal)
    THEN Response("api", Forbidden, request)
  ELSE IF ~masterElected THEN redirect("api", request)
  ELSE IF ~recovered THEN Response("api", ServiceUnavailable, request)
  ELSE IF request.method # "POST"
    THEN Response("api", MethodNotAllowed, request)
  ELSE IF request.contentType = None
    THEN Response("api", BadRequest, request)
  ELSE IF request.contentType \notin MediaTypes
    THEN Response("api", UnsupportedMediaType, request)
  ELSE IF /\ streamingMediaType(request.contentType)
          /\ request.messageContentType = None
    THEN Response("api", BadRequest, request)
  ELSE IF /\ streamingMediaType(request.contentType)
          /\ request.messageContentType \notin
               {"application/json", "application/x-protobuf"}
    THEN Response("api", UnsupportedMediaType, request)
  ELSE IF /\ ~streamingMediaType(request.contentType)
          /\ request.messageContentType # None
    THEN Response("api", UnsupportedMediaType, request)
  ELSE IF acceptType(request) = None
    THEN Response("api", NotAcceptable, request)
  ELSE IF /\ streamingMediaType(acceptType(request))
          /\ ~acceptsMediaType(request.messageAccept, "application/json")
          /\ ~acceptsMediaType(request.messageAccept,
                               "application/x-protobuf")
    THEN Response("api", NotAcceptable, request)
  ELSE IF /\ ~streamingMediaType(acceptType(request))
          /\ request.messageAccept # NoHeader
    THEN Response("api", NotAcceptable, request)
  ELSE IF ~request.parses
    THEN [Response("api", BadRequest, request) EXCEPT !.body = CallError]
  ELSE IF /\ streamingMediaType(request.contentType)
          /\ request.call.type # "SUBSCRIBE"
    THEN Response("api", UnsupportedMediaType, request)
  ELSE IF /\ streamingMediaType(acceptType(request))
          /\ request.call.type # "SUBSCRIBE"
    THEN Response("api", NotAcceptable, request)
  ELSE NoResponse

api(request) ==
  /\ request.url.path = <<"api", "v1">>
  /\ IF ~passes(apiChecks(request))
       THEN /\ response' = apiChecks(request)
            /\ UNCHANGED <<otherVars, subscriptionVars, leaderVars, schedulerVars,
                           operationVars>>
     ELSE IF request.call.type \in {"UNKNOWN", "UPDATE_QUOTA"}
       THEN /\ response' = Response("api", NotImplemented, request)
            /\ UNCHANGED <<otherVars, subscriptionVars, leaderVars, schedulerVars,
                           operationVars>>
     ELSE IF request.call.type = "GET_HEALTH"
       THEN /\ response' = Response("api", OK, request)
            /\ UNCHANGED <<otherVars, subscriptionVars, leaderVars, schedulerVars,
                           operationVars>>
     ELSE IF request.call.type = "SUBSCRIBE"
       THEN \E s \in SubscriberIds : subscribe(s)
     ELSE /\ request.call.type \in OperationTypes
          /\ operationRequest("api", request)

(***************************************************************************)
(* The form endpoints /reserve, /unreserve, /create-volumes and            *)
(* /destroy-volumes (Master::Http::reserve, unreserve, createVolumes,      *)
(* destroyVolumes). request.parses stands for a body that decodes and      *)
(* carries the parameters of the endpoint.                                 *)
(***************************************************************************)
Endpoints == {"reserve", "unreserve", "create-volumes", "destroy-volumes"}

endpointType(endpoint) ==
  CASE endpoint = "reserve" -> "RESERVE_RESOURCES"
    [] endpoint = "unreserve" -> "UNRESERVE_RESOURCES"
    [] endpoint = "create-volumes" -> "CREATE_VOLUMES"
    [] endpoint = "destroy-volumes" -> "DESTROY_VOLUMES"

endpointChecks(endpoint, request) ==
  IF request.principal # None /\ ~hasValue(request.principal)
    THEN Response(endpoint, Forbidden, request)
  ELSE IF ~masterElected THEN redirect(endpoint, request)
  ELSE IF request.method # "POST"
    THEN Response(endpoint, MethodNotAllowed, request)
  ELSE IF ~request.parses THEN Response(endpoint, BadRequest, request)
  ELSE NoResponse

endpoint(name, request) ==
  /\ request.url.path = <<name>>
  /\ request.call.type = endpointType(name)
  /\ IF ~passes(endpointChecks(name, request))
       THEN /\ response' = endpointChecks(name, request)
            /\ UNCHANGED <<otherVars, subscriptionVars, leaderVars, schedulerVars,
                           operationVars>>
     ELSE operationRequest(name, request)

\* The route /redirect, which serves every path below it.
redirectEndpoint(request) ==
  /\ \/ request.url.path = redirectPath
     \/ request.url.path = masterRedirectPath
     \/ startsWithDir(request.url.path, redirectPath)
     \/ startsWithDir(request.url.path, masterRedirectPath)
  /\ response' = redirect("redirect", request)
  /\ UNCHANGED <<subscriptionVars, leaderVars, schedulerVars, operationVars,
                 otherVars>>

(***************************************************************************)
(* Operator-API subscription: claims.                                      *)
(***************************************************************************)
StateEvents(pipe) == SelectSeq(pipe, LAMBDA e : e.type = "EVENT")

\* C1: on every SUBSCRIBE that succeeds the first record on the subscriber's
\* pipe is SUBSCRIBED and the second is HEARTBEAT; every other record comes
\* after them, and every state event among them reports a change of master
\* state made after the SUBSCRIBED snapshot was taken.
SubscribedIsFirst ==
  \A s \in SubscriberIds :
    LET pipe == subscribers[s].pipe IN
    IF subscribers[s].status = "subscribed"
      THEN /\ Len(pipe) >= 2
           /\ pipe[1].type = "SUBSCRIBED"
           /\ pipe[2].type = "HEARTBEAT"
           /\ \A i \in 3..Len(pipe) :
                /\ pipe[i].type # "SUBSCRIBED"
                /\ pipe[i].type = "EVENT" =>
                     pipe[i].version > pipe[1].version
    ELSE pipe = << >>

\* A subscriber that subscribed after a state change and has since received
\* a state event and a further heartbeat.
SubscribedIsFirstWitness ==
  \E s \in SubscriberIds :
    LET pipe == subscribers[s].pipe IN
    /\ subscribers[s].status = "subscribed"
    /\ Len(pipe) >= 4
    /\ pipe[1].version >= 1
    /\ \E i \in 3..Len(pipe) : pipe[i].type = "EVENT"
    /\ \E i \in 3..Len(pipe) : pipe[i].type = "HEARTBEAT"

\* C2: the snapshot, SUBSCRIBED and the registration happen in one turn of
\* the master actor: the state events on a subscriber's pipe are exactly the
\* changes made after its snapshot, each once and in order, so none is
\* missed and none contained in the snapshot is delivered again.
SnapshotAndRegistrationAtomic ==
  \A s \in SubscriberIds :
    subscribers[s].status = "subscribed" =>
      LET snapshot == subscribers[s].pipe[1].version
          events == StateEvents(subscribers[s].pipe)
      IN /\ Len(events) = stateVersion - snapshot
         /\ \A i \in 1..Len(events) : events[i].version = snapshot + i

\* Two subscribers with different snapshots, one still behind an authorizer
\* call that was started before the last state change.
SnapshotAndRegistrationAtomicWitness ==
  \E s, t \in SubscriberIds :
    /\ subscribers[s].status = "subscribed"
    /\ subscribers[t].status = "subscribed"
    /\ subscribers[s].pipe[1].version >= 1
    /\ subscribers[t].pipe[1].version > subscribers[s].pipe[1].version
    /\ stateVersion > subscribers[t].pipe[1].version

(***************************************************************************)
(* Requests of the scheduler endpoint.                                     *)
(***************************************************************************)
BaseRequest ==
  [principal |-> None, method |-> "POST",
   url |-> Url(<<"api", "v1", "scheduler">>),
   contentType |-> "application/json", messageContentType |-> None,
   parses |-> TRUE, call |-> None, accept |-> NoHeader,
   messageAccept |-> NoHeader, streamId |-> NoStreamId]

SubscribeCall(f, principal) ==
  [initialized |-> TRUE, type |-> "SUBSCRIBE", framework_id |-> f,
   subscribe |-> [present |-> TRUE, id |-> f, principal |-> principal],
   payload |-> FALSE,
   uuid |-> FALSE, slave_id |-> FALSE, resource_provider_id |-> FALSE]

SchedulerCall(type, f, payload) ==
  [initialized |-> TRUE, type |-> type, framework_id |-> f,
   subscribe |-> [present |-> FALSE, id |-> None, principal |-> None],
   payload |-> payload, uuid |-> TRUE, slave_id |-> TRUE,
   resource_provider_id |-> TRUE]

StreamHeaders == {NoStreamId} \cup (1..MaxStreams)

SchedulerRequest(principal, call, streamId) ==
  [BaseRequest EXCEPT !.principal = principal, !.call = call,
                      !.streamId = streamId]

\* SUBSCRIBE without and with a Mesos-Stream-Id header, and one whose Accept
\* header admits no media type of the endpoint.
SubscribeRequests ==
  {SchedulerRequest(None, SubscribeCall(f, "alice"), streamId) :
     f \in FrameworkIds, streamId \in {NoStreamId, 1}}
  \cup {[SchedulerRequest(None, SubscribeCall("f1", "alice"), NoStreamId)
           EXCEPT !.accept = {"text/html"}]}

\* The other calls, under every stream id header; calls of another
\* principal and a call that fails validation.
CallRequests ==
  {SchedulerRequest(None, SchedulerCall(type, f, TRUE), streamId) :
     type \in {"ACCEPT", "TEARDOWN"}, f \in FrameworkIds,
     streamId \in StreamHeaders}
  \cup {SchedulerRequest(None, SchedulerCall("UNKNOWN", "f1", TRUE), streamId) :
          streamId \in StreamHeaders}
  \cup {SchedulerRequest("bob", SchedulerCall("ACCEPT", "f1", TRUE), streamId) :
          streamId \in StreamHeaders}
  \cup {SchedulerRequest(None, SchedulerCall("ACCEPT", "f1", FALSE), 1)}

SchedulerRequests == SubscribeRequests \cup CallRequests

(***************************************************************************)
(* Specifications.                                                         *)
(***************************************************************************)
InitOther ==
  /\ InitBatch(MaxWorkers)
  /\ InitMaintenance
  /\ InitGone
  /\ InitQueue
  /\ InitUri
  /\ InitAdaptor

Init ==
  /\ InitSubscription
  /\ InitLeaderElected
  /\ InitScheduler
  /\ InitOperations
  /\ InitOther
  /\ InitResponse

\* Operator-API subscribers and the master's state changes.
NextSubscription ==
  \/ \E s \in SubscriberIds : subscribe(s)
  \/ \E s \in SubscriberIds : subscribeContinuation(s)
  \/ \E s \in SubscriberIds : subscribeAuthorizerFailed(s)
  \/ \E s \in SubscriberIds : Heartbeat(s)
  \/ MasterStateChange

SpecSubscription == Init /\ [][NextSubscription]_vars


\* The scheduler endpoint, with frameworks that register over a PID
\* connection and connections that are lost.
NextScheduler ==
  \/ \E request \in SchedulerRequests : scheduler(request)
  \/ \E f \in FrameworkIds : registerFramework(f, "alice")
  \/ \E f \in FrameworkIds : disconnect(f)

SpecScheduler == Init /\ [][NextScheduler]_vars

\* The scheduler endpoint alone: frameworks that subscribe and call.
NextStream ==
  \E request \in SchedulerRequests : scheduler(request)

SpecStream == Init /\ [][NextStream]_vars

(***************************************************************************)
(* Requests of the operator API, the form endpoints and /redirect.         *)
(***************************************************************************)
OperationCall(type, slaveId, resources, addition, upgradable, valid) ==
  [type |-> type, slave_id |-> slaveId, resources |-> resources,
   addition |-> addition, upgradable |-> upgradable, valid |-> valid]

OneCpu == [k \in Kinds |-> IF k = "cpus" THEN 1 ELSE 0]

ApiRequest(principal, call) ==
  [BaseRequest EXCEPT !.url = Url(<<"api", "v1">>), !.principal = principal,
                      !.call = call]

EndpointRequest(name, principal) ==
  [BaseRequest EXCEPT !.url = Url(<<name>>), !.principal = principal,
                      !.contentType = None,
                      !.call = OperationCall(endpointType(name), "a1", OneCpu,
                                             NoResources, TRUE, TRUE)]

GateApiRequests ==
  {ApiRequest(principal, [type |-> "GET_HEALTH"]) :
     principal \in {None, NoValue}}
  \cup {ApiRequest(None, OperationCall("RESERVE_RESOURCES", "a1", OneCpu,
                                       NoResources, TRUE, TRUE))}

GateSchedulerRequests ==
  {SchedulerRequest(principal, SubscribeCall("f1", "alice"), NoStreamId) :
     principal \in {None, NoValue}}

GateEndpointRequests(name) ==
  {EndpointRequest(name, principal) : principal \in {None, NoValue}}

RedirectRequests ==
  {[BaseRequest EXCEPT !.method = "GET", !.contentType = None,
                       !.url = Url(path)] :
     path \in {redirectPath, masterRedirectPath, <<"redirect", "">>,
               <<"redirect", "x">>, <<selfId, "redirect", "x">>}}

\* A master from its start: a leader is detected, this master is elected and
\* recovers, agents register; requests arrive at every endpoint at any time.
InitGate ==
  /\ InitSubscription
  /\ InitLeaderStandby
  /\ InitScheduler
  /\ InitOperationsStandby
  /\ InitOther
  /\ InitResponse

NextGate ==
  \/ \E info \in LeaderInfos : detected(info)
  \/ recover
  \/ \E a \in SlaveIds : addSlave(a)
  \/ \E request \in GateApiRequests : api(request)
  \/ \E request \in GateSchedulerRequests : scheduler(request)
  \/ \E name \in Endpoints :
       \E request \in GateEndpointRequests(name) : endpoint(name, request)
  \/ \E request \in RedirectRequests : redirectEndpoint(request)

SpecGate == InitGate /\ [][NextGate]_vars

(***************************************************************************)
(* Requests of the mutating operations.                                    *)
(***************************************************************************)
OneMem == [k \in Kinds |-> IF k = "mem" THEN 1 ELSE 0]

OperationRequests ==
  {ApiRequest(None, OperationCall("RESERVE_RESOURCES", "a1", OneCpu,
                                  NoResources, TRUE, valid)) :
     valid \in BOOLEAN}
  \cup {ApiRequest(None, OperationCall("DESTROY_VOLUMES", "a9", OneMem,
                                       NoResources, TRUE, TRUE))}

\* The elected and recovered master: operations arrive while the allocator
\* makes offers, the authorizer answers in any order, agents are removed.
NextOperations ==
  \/ \E request \in OperationRequests : api(request)
  \/ \E id \in 1..MaxOps, authorized \in BOOLEAN :
       authorizationResult(id, authorized)
  \/ \E id \in 1..MaxOps : authorizationFailed(id)
  \/ \E id \in 1..MaxOps, failure \in Failures \cup {None} :
       applyResult(id, failure)
  \/ \E a \in SlaveIds, resources \in {OneCpu, OneMem} :
       offerResources(a, "f1", resources)
  \/ \E a \in SlaveIds : removeSlave(a)

SpecOperations == Init /\ [][NextOperations]_vars

(***************************************************************************)
(* Read requests: batches under every size of the worker pool.             *)
(***************************************************************************)
ReadRequest(name) ==
  [BaseRequest EXCEPT !.method = "GET", !.contentType = None,
                      !.url = Url(<<name>>)]

InitBatches ==
  /\ InitSubscription
  /\ InitLeaderElected
  /\ InitScheduler
  /\ InitOperations
  /\ \E threads \in 1..MaxWorkers : InitBatch(threads)
  /\ InitMaintenance
  /\ InitGone
  /\ InitQueue
  /\ InitUri
  /\ InitAdaptor
  /\ InitResponse

NextBatch ==
  \/ \E handler \in ReadOnlyHandlers :
       deferBatchedRequest(handler, ReadRequest(handler))
  \/ processRequestsBatch
  \/ \E i \in 1..MaxBatch : workerStart(i)
  \/ \E i \in 1..MaxBatch : workerFinish(i)
  \/ processRequestsBatchReturns
  \/ actorEvent

SpecBatch == InitBatches /\ [][NextBatch]_vars

\* Threads are scheduled fairly: a task that can run does run, and an await
\* whose futures are all ready returns.
SpecBatchFair ==
  /\ SpecBatch
  /\ \A i \in 1..MaxBatch :
       WF_vars(workerStart(i)) /\ WF_vars(workerFinish(i))
  /\ WF_vars(processRequestsBatchReturns)

(***************************************************************************)
(* Maintenance requests: schedules over two machines, machines going down  *)
(* and coming up, while the authorizer and the registrar answer in any     *)
(* order.                                                                  *)
(***************************************************************************)
Window(ids, unavailability) ==
  [machine_ids |-> ids, unavailability |-> unavailability]

Schedules == {<< >>, <<Window({"m1", "m2"}, "tuesday")>>}

MaintenanceRequest(call) == ApiRequest(None, call)

UpdateRequests ==
  {MaintenanceRequest([type |-> "UPDATE_MAINTENANCE_SCHEDULE",
                       schedule |-> schedule]) : schedule \in Schedules}

MachinesRequests(type) ==
  {MaintenanceRequest([type |-> type, machines |-> ids]) :
     ids \in {<<"m1">>, <<"m1", "m2">>}}

NextMaintenance ==
  \/ \E request \in UpdateRequests : updateMaintenanceSchedule(request)
  \/ \E request \in MachinesRequests("START_MAINTENANCE") :
       machinesRequest("startMaintenance", request)
  \/ \E request \in MachinesRequests("STOP_MAINTENANCE") :
       machinesRequest("stopMaintenance", request)
  \/ \E id \in 1..Len(maintenances), approved \in SUBSET MachineIds :
       approvers(id, approved)
  \/ \E id \in 1..Len(maintenances), result \in RegistrarResults :
       registrarResult(id, result)
  \/ getMaintenanceStatus(
       MaintenanceRequest([type |-> "GET_MAINTENANCE_STATUS"]))

SpecMaintenance == Init /\ [][NextMaintenance]_vars

(***************************************************************************)
(* Mark-agent-gone requests for every agent the master knows and for one   *)
(* it does not know.                                                       *)
(***************************************************************************)
MarkAgentGoneRequests ==
  {ApiRequest(None, [type |-> "MARK_AGENT_GONE", slave_id |-> a]) :
     a \in AgentIds \cup {"a9"}}

NextGone ==
  \/ \E request \in MarkAgentGoneRequests, approved \in BOOLEAN :
       markAgentGone(request, approved)
  \/ \E request \in MarkAgentGoneRequests, result \in RegistrarResults :
       markAgentGoneResult(request, result)
  \/ \E a \in SlaveIds : markUnreachable(a)
  \/ \E a \in SlaveIds : markUnreachableResult(a)

SpecGone == Init /\ [][NextGone]_vars

(***************************************************************************)
(* The scheduler endpoint: claims.                                         *)
(***************************************************************************)

\* C3: on /api/v1/scheduler a SUBSCRIBE that carries a Mesos-Stream-Id header
\* is answered 400 and changes nothing; a call other than SUBSCRIBE is handed
\* to its handler only if the framework id resolves, the authenticated
\* principal (if any) equals the registered principal, the framework is
\* connected via HTTP and the Mesos-Stream-Id header is present and equal to
\* the framework's current stream id; when one of these fails the response is
\* 400 or 403, and a call that is not handed over changes no framework state.
StreamIdGuardsDispatch ==
  [][response'.op = "scheduler" =>
       LET request == response'.request
           f == request.call.framework_id
           admitted == passes(schedulerChecks(request))
           conditions ==
             /\ f \in FrameworkIds
             /\ frameworks[f].registered
             /\ \/ request.principal = None
                \/ request.principal = frameworks[f].principal
             /\ frameworks[f].connected
             /\ frameworks[f].http # NoStreamId
             /\ request.streamId # NoStreamId
             /\ request.streamId = frameworks[f].http
       IN
       IF request.call.type = "SUBSCRIBE"
         THEN (admitted /\ request.streamId # NoStreamId) =>
                /\ response'.code = BadRequest
                /\ UNCHANGED schedulerVars
       ELSE /\ response'.dispatched => (admitted /\ conditions)
            /\ (admitted /\ ~conditions) =>
                 response'.code \in {BadRequest, Forbidden}
            /\ ~response'.dispatched => UNCHANGED schedulerVars
  ]_vars

\* A framework connected via HTTP, one of whose calls was handed over, has a
\* call with another stream id rejected.
StreamIdGuardsDispatchWitness ==
  /\ response.op = "scheduler"
  /\ response.code = BadRequest
  /\ response.request.call.type = "ACCEPT"
  /\ response.request.principal = None
  /\ response.request.streamId # NoStreamId
  /\ LET f == response.request.call.framework_id IN
     /\ frameworks[f].connected
     /\ frameworks[f].http # NoStreamId
     /\ frameworks[f].http # response.request.streamId
     /\ dispatched[f] > 0

\* C4: a scheduler SUBSCRIBE answered 200 carries a stream id that was never
\* returned before, and it becomes the id most recently issued to the
\* framework; an ACCEPT of a framework that has subscribed is answered 202
\* only when it carries the id most recently issued to the framework, and
\* with any other id (or none) it is answered 400.
OneLiveStream ==
  [][response'.op = "scheduler" =>
       LET request == response'.request
           f == request.call.framework_id
       IN
       /\ (request.call.type = "SUBSCRIBE" /\ response'.code = OK) =>
            /\ response'.streamId \notin 0..streamIds
            /\ \A g \in FrameworkIds : response'.streamId # issued[g]
            /\ issued'[f] = response'.streamId
       /\ (request.call.type = "SUBSCRIBE" /\ response'.code # OK) =>
            response'.streamId = NoStreamId /\ issued' = issued
       /\ (/\ request.call.type = "ACCEPT"
           /\ f \in FrameworkIds
           /\ issued[f] # NoStreamId) =>
            /\ response'.code = Accepted => request.streamId = issued[f]
            /\ request.streamId # issued[f] => response'.code = BadRequest
  ]_vars

\* A framework has subscribed twice and its ACCEPT with the second stream id
\* is accepted.
OneLiveStreamWitness ==
  /\ response.op = "scheduler"
  /\ response.code = Accepted
  /\ response.request.call.type = "ACCEPT"
  /\ response.request.call.framework_id = "f1"
  /\ response.request.streamId = issued["f1"]
  /\ issued["f2"] = NoStreamId
  /\ streamIds > 1

(***************************************************************************)
(* Leadership and recovery: claims.                                        *)
(***************************************************************************)
GatedHandlers == {"api", "scheduler"} \cup Endpoints

\* The response answers a request whose principal got past the handler's
\* first check.
PrincipalAdmitted(r) ==
  r.request.principal = None \/ r.request.principal \in Principals

\* The path continues after /redirect/ or /<id>/redirect/.
BelowRedirect(path) ==
  \/ Len(path) > 1 /\ path[1] = "redirect"
  \/ Len(path) > 2 /\ path[1] = selfId /\ path[2] = "redirect"

\* The leader's hostname cannot be determined.
HostnameUnknown == leader.hostname = None /\ ~leader.resolves

RedirectNeverFails ==
  [][(\/ response'.op = "redirect"
      \/ /\ ~elected
         /\ response'.op \in GatedHandlers
         /\ PrincipalAdmitted(response')) =>
       LET url == response'.request.url IN
       IF leader = NoLeader THEN response'.code = ServiceUnavailable
       ELSE IF url.path \in {<<"redirect">>, <<selfId, "redirect">>}
         THEN /\ response'.code = TemporaryRedirect
              /\ response'.location.url = Url(<< >>)
       ELSE IF BelowRedirect(url.path) THEN response'.code = NotFound
       ELSE /\ response'.code = TemporaryRedirect
            /\ response'.location.url = url
  ]_vars

\* C6, amended: redirect() answers 503 when no leader is known and 500 when
\* the leader's MasterInfo has no hostname and its IP does not resolve;
\* otherwise 307 to the bare base path //host:port for /redirect and
\* /<id>/redirect, 404 when the path continues after them, and else 307 to
\* //host:port followed by the unchanged URL.
RedirectAnswers ==
  [][(\/ response'.op = "redirect"
      \/ /\ ~elected
         /\ response'.op \in GatedHandlers
         /\ PrincipalAdmitted(response')) =>
       LET url == response'.request.url
           host == IF leader.hostname # None THEN leader.hostname
                   ELSE "resolved-host"
       IN
       IF leader = NoLeader THEN response'.code = ServiceUnavailable
       ELSE IF HostnameUnknown THEN response'.code = InternalServerError
       ELSE IF url.path \in {<<"redirect">>, <<selfId, "redirect">>}
         THEN /\ response'.code = TemporaryRedirect
              /\ response'.location =
                   [host |-> host, port |-> leader.port, url |-> Url(<< >>)]
       ELSE IF BelowRedirect(url.path) THEN response'.code = NotFound
       ELSE /\ response'.code = TemporaryRedirect
            /\ response'.location =
                 [host |-> host, port |-> leader.port, url |-> url]
  ]_vars

\* /<id>/redirect was answered with the bare base path of a leader whose
\* hostname had to be resolved.
RedirectAnswersWitness ==
  /\ response.op = "redirect"
  /\ response.code = TemporaryRedirect
  /\ response.request.url.path = masterRedirectPath
  /\ response.location.host = "resolved-host"
  /\ response.location.url = Url(<< >>)
  /\ leader.hostname = None

\* C7: the operator API, the scheduler API and the form endpoints answer 503
\* while the master is the leader and has not recovered, and read or change
\* no master state.
RecoveryGatesEveryEndpoint ==
  [][(/\ elected
      /\ ~recovered
      /\ response'.op \in GatedHandlers
      /\ PrincipalAdmitted(response')) =>
       /\ response'.code = ServiceUnavailable
       /\ UNCHANGED <<otherVars, subscriptionVars, leaderVars, schedulerVars,
                      operationVars>>
  ]_vars

(***************************************************************************)
(* The mutating-operation pipeline: claims.                                *)
(***************************************************************************)
Count(seq, x) == Cardinality({i \in 1..Len(seq) : seq[i] = x})

OperationIds == 1..Len(operations)

\* C8: an operation rejected with 400 or 403 - by the checks before the
\* authorizer is asked, by the authorizer, or because the agent is no longer
\* registered when the authorizer has answered - has rescinded no offer, has
\* recovered nothing to the allocator and was not submitted to the agent.
RejectionHasNoEffect ==
  /\ [](\A id \in OperationIds :
         operations[id].status = "rejected" =>
           /\ operations[id].rescinded = << >>
           /\ Count(applied, id) = 0)
  /\ [][(/\ response'.op = "api"
         /\ response'.request.call.type \in OperationTypes
         /\ response'.code \in {BadRequest, Forbidden}) =>
          UNCHANGED <<offers, allocator, applied>>
     ]_vars

\* One operation was denied by the authorizer and another one, authorized,
\* found its agent gone and was answered 400.
RejectionHasNoEffectWitness ==
  /\ response.op = "api"
  /\ response.code = BadRequest
  /\ \E denied, gone \in OperationIds :
       /\ operations[denied].status = "rejected"
       /\ operations[denied].authorized = "denied"
       /\ operations[gone].status = "rejected"
       /\ operations[gone].authorized = "granted"
       /\ response.request = operations[gone].request

\* C9 as stated: every operation that passed validation and authorization
\* is submitted to the agent exactly once.
AuthorizedIsSubmittedOnce ==
  \A id \in OperationIds :
    operations[id].authorized = "granted" => Count(applied, id) = 1

\* C9, amended: an operation that passed validation and authorization and
\* whose agent is still registered when the authorizer's answer is handled
\* is submitted to the agent exactly once (any other operation never); its
\* response is 202 if and only if the apply succeeds and 409 carrying the
\* failure if it fails, and the offers rescinded for it stay rescinded.
SubmittedOnce ==
  /\ [](\A id \in OperationIds :
         IF /\ operations[id].authorized = "granted"
            /\ operations[id].status # "rejected"
           THEN Count(applied, id) = 1
         ELSE Count(applied, id) = 0)
  /\ [][\A id \in OperationIds :
          (/\ operations[id].status = "applying"
           /\ operations'[id].status = "done") =>
            /\ response'.request = operations[id].request
            /\ response'.code = Accepted <=> operations'[id].failure = None
            /\ operations'[id].failure # None =>
                 /\ response'.code = Conflict
                 /\ response'.body = operations'[id].failure
            /\ UNCHANGED <<offers, allocator, applied>>
            /\ \A o \in Range(operations[id].rescinded) :
                 o \notin DOMAIN offers'
     ]_vars

\* An operation for which an offer was rescinded failed to apply and was
\* answered 409.
SubmittedOnceWitness ==
  /\ response.op = "api"
  /\ response.code = Conflict
  /\ \E id \in OperationIds :
       /\ operations[id].status = "done"
       /\ operations[id].failure # None
       /\ operations[id].rescinded # << >>
       /\ response.request = operations[id].request

\* C10 as stated: operations on the same agent are applied in the order in
\* which the master accepted their requests, whatever the order of the
\* authorizer's answers.
AppliedInArrivalOrder ==
  \A i, j \in 1..Len(applied) : i < j => applied[i] < applied[j]

\* C10, amended: operations on the same agent are applied in the order in
\* which the master handled the authorizer's answers for them.
AppliedInAuthorizationOrder ==
  applied = SelectSeq(authorizations,
                      LAMBDA id : operations[id].status \in
                                    {"applying", "done"})

\* Two operations were applied in the reverse of the order of their
\* requests.
AppliedInAuthorizationOrderWitness ==
  /\ Len(applied) > 1
  /\ applied[1] > applied[2]
  /\ authorizations[1] > authorizations[2]

\* The offers named by the rescind messages from position `from` on.
RescindedSince(from, messages) ==
  {messages[i].offer : i \in (from + 1)..Len(messages)}

Observed == {v \in 0..(MaxVersion + 1) :
               \E i \in 1..Len(batchedRequests) :
                 v \in Range(batchedRequests[i].observed)}

\* C12: while a batch is processed the master actor runs nothing else: what
\* the read handlers of the batch have observed of the master's state is one
\* and the same state, the current one, and no step taken while the batch is
\* processed changes the master's state.
BatchReadsOneState ==
  /\ [](processing => Observed \subseteq {stateVersion})
  /\ [][processing => UNCHANGED <<stateVersion, subscribers, leaderVars,
                                  schedulerVars, operationVars>>]_vars

\* Two read handlers of one batch have finished, on a master whose state
\* had changed before the batch was processed.
BatchReadsOneStateWitness ==
  /\ processing
  /\ Len(batchedRequests) >= 2
  /\ \A i \in 1..Len(batchedRequests) :
       batchedRequests[i].status = "ready"
       /\ Len(batchedRequests[i].observed) = 2
  /\ stateVersion >= 1

\* C13: processing of a batch always terminates, for every batch size and
\* every size of the worker pool.
BatchTerminates == processing ~> ~processing

(***************************************************************************)
(* Maintenance: claims.                                                    *)
(***************************************************************************)
Answered(op) == response.op = op /\ response.code = OK

Named == Range(response.request.call.machines)

\* C14: a machine in DOWN mode is never moved to UP or to DRAINING by a
\* schedule update, however the requests interleave: a step that takes a
\* machine out of DOWN is the step that answers a STOP_MAINTENANCE.
DownLeavesOnlyByStop ==
  [][\A m \in MachineIds :
       (machines[m].mode = "DOWN" /\ machines'[m].mode # "DOWN") =>
         response'.op = "stopMaintenance"]_vars

\* C15: after an UPDATE_MAINTENANCE_SCHEDULE that is answered 200, every
\* machine is in UP or in DRAINING mode.
UpdateLeavesUpOrDraining ==
  Answered("updateMaintenanceSchedule") =>
    \A m \in MachineIds : machines[m].mode \in {"UP", "DRAINING"}

StopBringsMachinesUp ==
  /\ [](Answered("stopMaintenance") =>
          /\ \A m \in Named :
               /\ machines[m] = [mode |-> "UP", unavailability |-> None]
               /\ \A i \in 1..Len(schedules) :
                    m \notin windowMachines(schedules[i])
               /\ m \notin _getMaintenanceStatus.draining_machines
               /\ m \notin _getMaintenanceStatus.down_machines
          /\ \A i \in 1..Len(schedules) :
               /\ schedules[i] # << >>
               /\ \A j \in 1..Len(schedules[i]) :
                    schedules[i][j].machine_ids # {})
  /\ [][(Answered("stopMaintenance")
          /\ response'.op = "getMaintenanceStatus") =>
          \A m \in Named :
            /\ m \notin clusterStatus'.draining_machines
            /\ m \notin clusterStatus'.down_machines]_vars

\* A STOP_MAINTENANCE of one machine was answered 200 and the stored
\* schedule keeps the window with the other machine only.
StopBringsMachinesUpWitness ==
  /\ Answered("stopMaintenance")
  /\ Named = {"m1"}
  /\ Len(schedules) = 1
  /\ windowMachines(schedules[1]) = {"m2"}

\* C18: machine modes and the stored schedule change only in the step in
\* which a registrar commit is found to have succeeded, and a request
\* whose commit is in flight ends in that step, answered 200, or the
\* process aborts: it is never answered otherwise.
CommitSucceedsOrAborts ==
  [][/\ (machines' # machines \/ schedules' # schedules) =>
          \E id \in 1..Len(maintenances) :
            /\ maintenances[id].status = "committing"
            /\ maintenances'[id].status = "done"
     /\ \A id \in 1..Len(maintenances) :
          (maintenances[id].status = "committing"
             /\ maintenances'[id].status # "committing") =>
            /\ maintenances'[id].status = "done"
            /\ response'.code = OK]_vars

\* The machines a request in flight is about.
Touches(id) ==
  IF maintenances[id].op = "updateMaintenanceSchedule"
    THEN windowMachines(maintenances[id].request.call.schedule)
  ELSE Range(maintenances[id].request.call.machines)

\* Validated and not yet applied: a schedule update from its arrival, the
\* other two from the continuation that validates them.
InFlight(id) ==
  \/ maintenances[id].status = "committing"
  \/ /\ maintenances[id].op = "updateMaintenanceSchedule"
     /\ maintenances[id].status = "authorizing"

\* C19: at any time at most one maintenance transition is in flight for a
\* given machine.
OneTransitionPerMachine ==
  \A m \in MachineIds :
    Cardinality({id \in 1..Len(maintenances) :
                   InFlight(id) /\ m \in Touches(id)}) <= 1

(***************************************************************************)
(* Mark agent gone: claims.                                                *)
(***************************************************************************)

\* C20: mark-agent-gone is idempotent: every request for an agent that is
\* registered, recovered or unreachable is answered 200 (or is waiting for
\* the registrar), except that it is answered 503 when it is handled while
\* an earlier transition of the agent is still in progress.
MarkAgentGoneIdempotent ==
  \A a \in AgentIds :
    \A i \in 1..Len(marks[a]) :
      \/ marks[a][i].code \in {0, OK}
      \/ /\ marks[a][i].code = ServiceUnavailable
         /\ marks[a][i].inProgress

\* The agents with a transition under way.
InTransition ==
  slaveSets.markingGone \cup slaveSets.removing
    \cup slaveSets.markingUnreachable

\* The mark-gone requests of an agent that are with the registrar.
Submitted(a) == {i \in 1..Len(marks[a]) : marks[a][i].code = 0}

MarkGoneCompletes ==
  \A a \in AgentIds :
    ((\E i \in 1..Len(marks[a]) : marks[a][i].code = OK)
       /\ a \notin goneCommits) =>
      /\ a \in slaveSets.gone
      /\ a \notin slaveSets.markingGone

(***************************************************************************)
(* Content negotiation of /api/v1: requests that vary the Content-Type and *)
(* Message-Content-Type headers and whether the body decodes, and requests *)
(* that vary the Accept and Message-Accept headers, each for a plain call  *)
(* and for SUBSCRIBE.                                                      *)
(***************************************************************************)
ContentTypes == {None, "text/plain"} \cup MediaTypes
MessageContentTypes == {None, "application/json", "application/recordio"}
Accepts ==
  {NoHeader, {"application/json"}, {"application/recordio"}, {"text/plain"},
   {"application/x-protobuf", "application/recordio"}}
MessageAccepts == {NoHeader, {"application/json"}, {"application/recordio"}}

NegotiationRequest(type, contentType, messageContentType, accept,
                   messageAccept, parses) ==
  [ApiRequest(None, [type |-> type])
     EXCEPT !.contentType = contentType,
            !.messageContentType = messageContentType,
            !.accept = accept, !.messageAccept = messageAccept,
            !.parses = parses]

ContentRequests ==
  {NegotiationRequest(type, contentType, messageContentType, accept,
                      NoHeader, parses) :
     type \in {"GET_HEALTH", "SUBSCRIBE"}, contentType \in ContentTypes,
     messageContentType \in MessageContentTypes,
     accept \in {NoHeader, {"text/plain"}}, parses \in BOOLEAN}

AcceptRequests ==
  {NegotiationRequest(type, content[1], content[2], accept, messageAccept,
                      TRUE) :
     type \in {"GET_HEALTH", "SUBSCRIBE"},
     content \in {<<"application/json", None>>,
                  <<"application/recordio", "application/json">>,
                  <<"text/plain", None>>},
     accept \in Accepts, messageAccept \in MessageAccepts}

NextContent == \E request \in ContentRequests : api(request)

SpecContent == Init /\ [][NextContent]_vars

NextAccept == \E request \in AcceptRequests : api(request)

SpecAccept == Init /\ [][NextAccept]_vars

\* The request reaches the header checks of api().
ReachesHeaders(request) ==
  /\ elected /\ recovered
  /\ request.principal = None
  /\ request.method = "POST"

NonStreaming == {"application/json", "application/x-protobuf"}

\* The request passes the rules for Content-Type and Message-Content-Type.
ContentAdmitted(request) ==
  \/ /\ request.contentType \in NonStreaming
     /\ request.messageContentType = None
  \/ /\ request.contentType = "application/recordio"
     /\ request.messageContentType \in NonStreaming

\* C23: on /api/v1 a missing Content-Type gives 400, an unrecognized one
\* 415; a recordio Content-Type without Message-Content-Type gives 400 and
\* with one that names neither json nor protobuf 415; a non-streaming
\* Content-Type with Message-Content-Type gives 415; the body is decoded
\* (and a decoding failure reported) only in the remaining cases.
ContentTypeRules ==
  LET request == response.request IN
  (response.op = "api" /\ response.code # 0 /\ ReachesHeaders(request)) =>
    /\ request.contentType = None => response.code = BadRequest
    /\ request.contentType \notin MediaTypes \cup {None} =>
         response.code = UnsupportedMediaType
    /\ (/\ request.contentType = "application/recordio"
        /\ request.messageContentType = None) =>
         response.code = BadRequest
    /\ (/\ request.contentType = "application/recordio"
        /\ request.messageContentType \notin NonStreaming \cup {None}) =>
         response.code = UnsupportedMediaType
    /\ (/\ request.contentType \in NonStreaming
        /\ request.messageContentType # None) =>
         response.code = UnsupportedMediaType
    /\ response.body = CallError <=>
         (/\ ContentAdmitted(request)
          /\ request.accept = NoHeader
          /\ ~request.parses)

\* A body that does not decode was sent with a non-streaming Content-Type
\* and a Message-Content-Type, and answered 415.
ContentTypeRulesWitness ==
  /\ response.op = "api"
  /\ response.code = UnsupportedMediaType
  /\ response.request.contentType = "application/json"
  /\ response.request.messageContentType = "application/json"
  /\ ~response.request.parses

\* The Accept header admits recordio and neither json nor protobuf: the
\* response is streamed.
StreamingAccept(request) ==
  /\ request.accept # NoHeader
  /\ "application/recordio" \in request.accept
  /\ request.accept \cap NonStreaming = {}

\* The Accept header admits none of the three media types.
NothingAccepted(request) ==
  /\ request.accept # NoHeader
  /\ request.accept \cap MediaTypes = {}

\* C24 as stated: a streaming Accept requires Message-Accept to be present
\* and to name json or protobuf, a non-streaming Accept requires
\* Message-Accept to be absent, and every violation is answered 406.
AcceptRulesSymmetrical ==
  [][\A request \in AcceptRequests :
       (ReachesHeaders(request) /\ ContentAdmitted(request) /\ api(request))
         => ((\/ NothingAccepted(request)
              \/ /\ StreamingAccept(request)
                 /\ \/ request.messageAccept = NoHeader
                    \/ request.messageAccept \cap NonStreaming = {}
              \/ /\ ~StreamingAccept(request)
                 /\ request.messageAccept # NoHeader)
             => response'.code = NotAcceptable)]_vars

\* C24: of a request that passed the Content-Type rules, an Accept that
\* admits none of the media types is answered 406; with a streaming Accept a
\* Message-Accept that is present must admit json or protobuf, else 406,
\* and an absent Message-Accept is admitted (a SUBSCRIBE is not answered
\* 406); with a non-streaming Accept a present Message-Accept gives 406.
AcceptRules ==
  [][\A request \in AcceptRequests :
       (ReachesHeaders(request) /\ ContentAdmitted(request) /\ api(request))
         => /\ (\/ NothingAccepted(request)
                \/ /\ StreamingAccept(request)
                   /\ request.messageAccept # NoHeader
                   /\ request.messageAccept \cap NonStreaming = {}
                \/ /\ ~StreamingAccept(request)
                   /\ request.messageAccept # NoHeader)
               => response'.code = NotAcceptable
            /\ (/\ StreamingAccept(request)
                /\ request.messageAccept = NoHeader
                /\ request.call.type = "SUBSCRIBE")
               => /\ response'.code = 0
                  /\ \E s \in SubscriberIds :
                       /\ subscribers[s].status = None
                       /\ subscribers'[s].status = "authorizing"]_vars

\* A request with a streaming Accept whose Message-Accept admits only
\* recordio was answered 406.
AcceptRulesWitness ==
  /\ response.op = "api"
  /\ response.code = NotAcceptable
  /\ response.request.call.type = "SUBSCRIBE"
  /\ response.request.accept = {"application/recordio"}
  /\ response.request.messageAccept = {"application/recordio"}

(***************************************************************************)
(* Scheduler calls for validation: every call type with its fields present *)
(* or absent, and SUBSCRIBE calls of authenticated and unauthenticated     *)
(* principals.                                                             *)
(***************************************************************************)
ValidationCalls ==
  {SchedulerCall(type, "f1", payload) :
     type \in PayloadTypes \cup BareTypes, payload \in BOOLEAN}
  \cup {SchedulerCall(type, None, TRUE) : type \in {"ACCEPT", "TEARDOWN"}}
  \cup {[SchedulerCall(type, "f1", TRUE) EXCEPT !.uuid = FALSE] :
          type \in {"ACKNOWLEDGE", "ACKNOWLEDGE_OPERATION_STATUS"}}
  \cup {[SchedulerCall("ACKNOWLEDGE_OPERATION_STATUS", "f1", TRUE)
           EXCEPT !.slave_id = slave_id,
                  !.resource_provider_id = resource_provider_id] :
          slave_id \in BOOLEAN, resource_provider_id \in BOOLEAN}
  \cup {[SchedulerCall("ACCEPT", "f1", TRUE) EXCEPT !.initialized = FALSE],
        SchedulerCall(None, "f1", TRUE)}

ValidationSubscribes ==
  {[SubscribeCall("f1", principal)
      EXCEPT !.framework_id = f, !.subscribe.present = present] :
     principal \in {None, "alice"}, f \in {"f1", "f2", None},
     present \in BOOLEAN}
  \cup {SubscribeCall(None, principal) : principal \in {None, "alice"}}

ValidationRequests ==
  {SchedulerRequest(None, call, 1) : call \in ValidationCalls}
  \cup {SchedulerRequest(principal, call, NoStreamId) :
          principal \in {None, "alice", "bob"}, call \in ValidationSubscribes}

NextValidation == \E request \in ValidationRequests : scheduler(request)

SpecValidation == Init /\ [][NextValidation]_vars

\* The last response answers a request that reached validation.
Validated ==
  /\ response.op = "scheduler"
  /\ response.code # 0
  /\ elected /\ recovered
  /\ response.request.principal # NoValue
  /\ response.request.method = "POST"
  /\ response.request.contentType \in NonStreaming
  /\ response.request.parses

AcknowledgeTypes == {"ACKNOWLEDGE", "ACKNOWLEDGE_OPERATION_STATUS"}

\* The calls that are in error by the list of C25.
ListedErrors(call) ==
  \/ call.type = None
  \/ call.type \notin {None, "SUBSCRIBE"} /\ call.framework_id = None
  \/ /\ call.type \in {"ACCEPT", "DECLINE", "KILL", "SHUTDOWN", "ACKNOWLEDGE",
                       "RECONCILE", "MESSAGE", "REQUEST",
                       "RECONCILE_OPERATIONS"}
     /\ ~call.payload
  \/ call.type \in AcknowledgeTypes /\ ~call.uuid
  \/ /\ call.type = "ACKNOWLEDGE_OPERATION_STATUS"
     /\ ~(call.slave_id /\ call.resource_provider_id)
  \/ call.type = "SUBSCRIBE" /\ call.subscribe.id # call.framework_id

\* The errors the list leaves out: a call that is not initialized, a call
\* without the field of its type for the types the list does not name, and a
\* SUBSCRIBE whose FrameworkInfo.principal is set and differs from the
\* authenticated principal.
UnlistedErrors(call, principal) ==
  \/ ~call.initialized
  \/ call.type = "SUBSCRIBE" /\ ~call.subscribe.present
  \/ /\ call.type \in {"ACCEPT_INVERSE_OFFERS", "DECLINE_INVERSE_OFFERS",
                       "ACKNOWLEDGE_OPERATION_STATUS"}
     /\ ~call.payload
  \/ /\ call.type = "SUBSCRIBE"
     /\ principal # None
     /\ call.subscribe.principal \notin {None, principal}

\* C25 as stated: validation returns an error exactly for the calls of the
\* list.
ValidationErrorsAsListed ==
  Validated =>
    (response.body # None <=> ListedErrors(response.request.call))

\* C25: validation returns an error exactly for the calls of the list and
\* for the errors it leaves out; the error is answered 400 with the reason,
\* and the step changes nothing of the master's frameworks, connections and
\* stream ids.
ValidationErrors ==
  /\ [](Validated =>
          /\ response.body # None <=>
               \/ ListedErrors(response.request.call)
               \/ UnlistedErrors(response.request.call,
                                 response.request.principal)
          /\ response.body # None => response.code = BadRequest)
  /\ [][(response'.op = "scheduler" /\ response'.body # None) =>
          UNCHANGED <<schedulerVars, subscriptionVars, leaderVars,
                      operationVars, otherVars>>]_vars

\* An ACKNOWLEDGE whose uuid does not parse was answered 400 with the
\* reason.
ValidationErrorsWitness ==
  /\ Validated
  /\ response.request.call.type = "ACKNOWLEDGE"
  /\ response.request.call.payload
  /\ ~response.request.call.uuid
  /\ response.code = BadRequest
  /\ response.body # None

\* C26: a SUBSCRIBE made with an authenticated principal whose
\* FrameworkInfo.principal is set and differs is answered 400 by validation,
\* and the step mints no stream id and registers no connection; when the
\* SUBSCRIBE is answered 200, the framework it registers carries the
\* authenticated principal, also when FrameworkInfo.principal was unset.
SubscribeCarriesPrincipal ==
  [][LET request == response'.request IN
     (/\ response'.op = "scheduler"
      /\ response'.code # 0
      /\ request.principal \in Principals
      /\ request.call.initialized
      /\ request.call.type = "SUBSCRIBE"
      /\ request.call.subscribe.present) =>
       /\ request.call.subscribe.principal \notin {None, request.principal} =>
            /\ response'.code = BadRequest
            /\ response'.body # None
            /\ UNCHANGED <<frameworks, streamIds, issued>>
       /\ response'.code = OK =>
            \A f \in FrameworkIds :
              (~frameworks[f].registered /\ frameworks'[f].registered) =>
                frameworks'[f].principal = request.principal]_vars

\* A SUBSCRIBE of the authenticated principal bob with no principal in its
\* FrameworkInfo was answered 200, and the framework carries bob.
SubscribeCarriesPrincipalWitness ==
  /\ response.op = "scheduler"
  /\ response.code = OK
  /\ response.request.principal = "bob"
  /\ response.request.call.subscribe.principal = None
  /\ \E f \in FrameworkIds :
       /\ frameworks[f].http = response.streamId
       /\ frameworks[f].principal = "bob"

(***************************************************************************)
(* The queue used from one thread: puts, gets and discards in any order.   *)
(***************************************************************************)
NextQueue ==
  \/ \E t \in Values : queuePut(t)
  \/ queueGet
  \/ \E i \in 1..MaxGets : queueDiscard(i)

SpecQueue == Init /\ [][NextQueue]_vars

Discarded == {i \in 1..Len(stringQueue.futures) :
                stringQueue.futures[i].state = "discarded"}

\* C27: while no get was discarded, the i-th get is ready with the i-th put
\* value once i values were put and pending until then, and the values put
\* beyond the gets wait in the queue in the order of the puts.
GetsReceivePutsInOrder ==
  Discarded = {} =>
    /\ \A i \in 1..Len(stringQueue.futures) :
         IF i <= Len(stringQueue.puts)
           THEN stringQueue.futures[i] =
                  [state |-> "ready", value |-> stringQueue.puts[i]]
         ELSE stringQueue.futures[i].state = "pending"
    /\ stringQueue.elements =
         SubSeq(stringQueue.puts, Len(stringQueue.futures) + 1,
                Len(stringQueue.puts))

\* Of three gets, two were completed by two puts of different values and
\* the third is pending.
GetsReceivePutsInOrderWitness ==
  /\ Discarded = {}
  /\ Len(stringQueue.futures) = 3
  /\ Len(stringQueue.puts) = 2
  /\ stringQueue.puts[1] # stringQueue.puts[2]
  /\ stringQueue.futures[2].state = "ready"
  /\ stringQueue.futures[3].state = "pending"

Pending == {i \in 1..Len(stringQueue.futures) :
              stringQueue.futures[i].state = "pending"}

\* The values the ready futures hold, in the order of the gets.
Delivered ==
  LET ready == SelectSeq(stringQueue.futures, LAMBDA f : f.state = "ready")
  IN [i \in 1..Len(ready) |-> ready[i].value]

\* C28: a discarded get is not among the waiters and is never completed; a
\* put made while gets wait completes the oldest get that was not
\* discarded; and every value put is held by a ready future or waits in the
\* queue, in the order of the puts.
DiscardRemovesWaiter ==
  /\ [](/\ \A i \in Discarded :
             \A j \in 1..Len(stringQueue.promises) :
               stringQueue.promises[j] # i
        /\ Delivered \o stringQueue.elements = stringQueue.puts)
  /\ [][/\ \A i \in Discarded :
             stringQueue.futures'[i].state = "discarded"
        /\ (Len(stringQueue.puts') > Len(stringQueue.puts) /\ Pending # {}) =>
             LET oldest == CHOOSE i \in Pending : \A j \in Pending : i <= j
             IN stringQueue.futures'[oldest] =
                  [state |-> "ready",
                   value |-> stringQueue.puts'[Len(stringQueue.puts')]]]_vars

\* The first of two parked gets was discarded, and a put completed the
\* second.
DiscardRemovesWaiterWitness ==
  /\ Len(stringQueue.futures) = 2
  /\ stringQueue.futures[1].state = "discarded"
  /\ stringQueue.futures[2] = [state |-> "ready", value |-> "hello"]
  /\ stringQueue.puts = <<"hello">>

(***************************************************************************)
(* Strings for URI::parse: the parts of a URI reference, each present or   *)
(* absent, written one after the other.                                    *)
(***************************************************************************)
NoAuthority ==
  [present |-> FALSE, user |-> NoText, host |-> <<>>, port |-> NoText]

Authorities ==
  {[present |-> TRUE, user |-> user, host |-> host, port |-> port] :
     user \in {NoText, <<"a">>},
     host \in {<<>>, <<"h">>, <<"[", ":", ":", "1", "]">>},
     port \in {NoText, <<>>, <<"8", "0">>, <<"0", "8", "0">>,
               <<"9", "9", "9", "9", "9">>, <<"8", "0", ":", "8", "1">>}}

UriInputs ==
  {[scheme |-> scheme, authority |-> authority, path |-> path,
    query |-> query, fragment |-> fragment] :
     scheme \in {NoText, <<"f">>},
     authority \in Authorities,
     path \in {<<>>, <<"/">>, <<"/", "p", "/", "q">>},
     query \in {NoText, <<>>, <<"q">>},
     fragment \in {NoText, <<"f", "?", "q">>}}
  \cup
  {[scheme |-> scheme, authority |-> NoAuthority, path |-> path,
    query |-> query, fragment |-> fragment] :
     scheme \in {NoText, <<"f">>},
     path \in {<<>>, <<"p">>, <<"/", "p">>, <<"p", "/", "q">>},
     query \in {NoText, <<>>, <<"q">>},
     fragment \in {NoText, <<"f", "?", "q">>}}

\* The string with these parts.
Written(input) ==
  (IF input.scheme # NoText THEN input.scheme \o <<":">> ELSE <<>>)
    \o (IF input.authority.present
          THEN <<"/", "/">>
                 \o (IF input.authority.user # NoText
                       THEN input.authority.user \o <<"@">> ELSE <<>>)
                 \o input.authority.host
                 \o (IF input.authority.port # NoText
                       THEN <<":">> \o input.authority.port ELSE <<>>)
        ELSE <<>>)
    \o input.path
    \o (IF input.query # NoText THEN <<"?">> \o input.query ELSE <<>>)
    \o (IF input.fragment # NoText THEN <<"#">> \o input.fragment ELSE <<>>)

NextUri ==
  \/ \E input \in UriInputs : uriParse(input, Written(input))
  \/ uriStringify

SpecUri == Init /\ [][NextUri]_vars

\* C29: serializing the URI parsed from a string returns the string.
RoundTrip ==
  uri.stage = "stringified" => uri.text = uri.value

\* The string was accepted by URI::parse.
ParseAccepted == uri.stage # "idle" /\ uri.result.error = None

\* The path of the string without its leading slash.
PathBody ==
  IF uri.input.path # <<>> /\ uri.input.path[1] = "/"
    THEN Tail(uri.input.path)
  ELSE uri.input.path

\* The string has an absolute path or an authority.
Rooted ==
  \/ uri.input.authority.present
  \/ uri.input.path # <<>> /\ uri.input.path[1] = "/"

\* C30 as stated: the path of an accepted URI that is absolute-path or has
\* an authority is its path body with a leading "/"; otherwise it is the
\* path as written.
PathRule ==
  ParseAccepted =>
    uri.result.path = IF Rooted THEN <<"/">> \o PathBody ELSE uri.input.path

\* C30: the path of an accepted URI that has path segments is its path
\* body with a leading "/" when the URI is absolute-path or has an
\* authority, and the path as written otherwise; the path of a URI without
\* path segments is empty.
PathRuleOfSegments ==
  ParseAccepted =>
    uri.result.path =
      IF uri.input.path = <<>> THEN <<>>
      ELSE IF Rooted THEN <<"/">> \o PathBody
      ELSE uri.input.path

\* A URI with an authority and the path /p/q was parsed.
PathRuleOfSegmentsWitness ==
  /\ ParseAccepted
  /\ uri.input.authority.present
  /\ uri.input.authority.host = <<"h">>
  /\ uri.input.path = <<"/", "p", "/", "q">>
  /\ uri.result.path = <<"/", "p", "/", "q">>

(***************************************************************************)
(* Requests that fail several checks of /api/v1 and /api/v1/scheduler at   *)
(* once, sent to a master before and after its election and recovery.      *)
(***************************************************************************)
OrderRequest(request, principal, method, contentType, accept, parses) ==
  [request EXCEPT !.principal = principal, !.method = method,
                  !.contentType = contentType, !.accept = accept,
                  !.parses = parses]

OrderApiRequests ==
  {OrderRequest(ApiRequest(None, [type |-> type]), principal, method,
                contentType, accept, parses) :
     type \in {"GET_HEALTH", "UNKNOWN"}, principal \in {None, NoValue},
     method \in {"POST", "GET"},
     contentType \in {"application/json", "text/plain"},
     accept \in {NoHeader, {"text/plain"}}, parses \in BOOLEAN}

OrderSchedulerRequests ==
  {OrderRequest(SchedulerRequest(None, call, NoStreamId), principal, method,
                contentType, accept, parses) :
     call \in {SubscribeCall("f1", None),
               [SubscribeCall("f1", None) EXCEPT !.framework_id = "f2"],
               SchedulerCall("ACCEPT", "f2", TRUE),
               SchedulerCall("RECONCILE_OPERATIONS", "f2", TRUE)},
     principal \in {None, NoValue}, method \in {"POST", "GET"},
     contentType \in {"application/json", "text/plain"},
     accept \in {NoHeader, {"text/plain"}}, parses \in BOOLEAN}

NextOrder ==
  \/ \E info \in LeaderInfos : detected(info)
  \/ recover
  \/ \E request \in OrderApiRequests : api(request)
  \/ \E request \in OrderSchedulerRequests : scheduler(request)

SpecOrder == InitGate /\ [][NextOrder]_vars

\* The last step answered a request of one of the two endpoints.
Answers == response.op \in {"api", "scheduler"} /\ response.code # 0

\* The codes of a request that is not served because of the leadership.
LeadershipCodes ==
  IF leader = NoLeader THEN {ServiceUnavailable}
  ELSE IF leaderHostname(leader).error THEN {InternalServerError}
  ELSE {TemporaryRedirect}

\* The call of the last request fails validation.
InvalidCall ==
  \/ ListedErrors(response.request.call)
  \/ UnlistedErrors(response.request.call, response.request.principal)

\* The Accept header of the last request admits no media type of the
\* endpoint.
NotAccepted == response.request.accept = {"text/plain"}

\* The answer of the dispatch: the call of /api/v1 is handled or not
\* implemented; a SUBSCRIBE is answered 200 and a call of a framework the
\* master does not know 400.
Dispatched ==
  IF response.op = "api"
    THEN response.code =
           IF response.request.call.type = "UNKNOWN" THEN NotImplemented
           ELSE OK
  ELSE response.code =
         IF response.request.call.type = "SUBSCRIBE" THEN OK ELSE BadRequest

\* C31 as stated: the answer is that of the first failing check in the
\* order principal, leadership, recovery, method, content negotiation
\* (Content-Type and Accept), decode, validate, dispatch, on both endpoints.
ChecksInStatedOrder ==
  Answers =>
    IF response.request.principal = NoValue THEN response.code = Forbidden
    ELSE IF ~elected THEN response.code \in LeadershipCodes
    ELSE IF ~recovered THEN response.code = ServiceUnavailable
    ELSE IF response.request.method # "POST"
      THEN response.code = MethodNotAllowed
    ELSE IF response.request.contentType = "text/plain"
      THEN response.code = UnsupportedMediaType
    ELSE IF /\ NotAccepted
            /\ \/ response.op = "api"
               \/ /\ response.request.parses
                  /\ response.request.call.type \in
                       {"SUBSCRIBE", "RECONCILE_OPERATIONS"}
      THEN response.code = NotAcceptable
    ELSE IF ~response.request.parses THEN response.code = BadRequest
    ELSE IF response.op = "scheduler" /\ InvalidCall
      THEN response.code = BadRequest /\ response.body # None
    ELSE Dispatched

\* C31: the answer is that of the first failing check in the order
\* principal, leadership, recovery, method, Content-Type, then on /api/v1
\* Accept, decode (with validation), dispatch, and on /api/v1/scheduler
\* decode, validate, Accept (for a SUBSCRIBE or a RECONCILE_OPERATIONS),
\* dispatch.
ChecksInOrder ==
  Answers =>
    IF response.request.principal = NoValue THEN response.code = Forbidden
    ELSE IF ~elected THEN response.code \in LeadershipCodes
    ELSE IF ~recovered THEN response.code = ServiceUnavailable
    ELSE IF response.request.method # "POST"
      THEN response.code = MethodNotAllowed
    ELSE IF response.request.contentType = "text/plain"
      THEN response.code = UnsupportedMediaType
    ELSE IF response.op = "api" /\ NotAccepted
      THEN response.code = NotAcceptable
    ELSE IF ~response.request.parses THEN response.code = BadRequest
    ELSE IF response.op = "scheduler" /\ InvalidCall
      THEN response.code = BadRequest /\ response.body # None
    ELSE IF /\ response.op = "scheduler"
            /\ response.request.call.type \in
                 {"SUBSCRIBE", "RECONCILE_OPERATIONS"}
            /\ NotAccepted
      THEN response.code = NotAcceptable
    ELSE Dispatched

\* A GET with an unsupported Content-Type and a body that does not decode
\* was answered 405 by the elected and recovered master.
ChecksInOrderWitness ==
  /\ Answers
  /\ elected /\ recovered
  /\ response.request.principal = None
  /\ response.request.method = "GET"
  /\ response.request.contentType = "text/plain"
  /\ ~response.request.parses
  /\ response.code = MethodNotAllowed

(***************************************************************************)
(* Operations that need one or two kinds of resources, while the allocator *)
(* offers one kind at a time.                                              *)
(***************************************************************************)
CpuAndMem == [k \in Kinds |-> 1]

RescindRequests ==
  {ApiRequest(None, OperationCall("RESERVE_RESOURCES", "a1", resources,
                                  NoResources, TRUE, TRUE)) :
     resources \in {OneCpu, CpuAndMem}}

NextRescind ==
  \/ \E request \in RescindRequests : api(request)
  \/ \E id \in 1..MaxOps, authorized \in BOOLEAN :
       authorizationResult(id, authorized)
  \/ \E id \in 1..MaxOps, failure \in Failures \cup {None} :
       applyResult(id, failure)
  \/ \E a \in SlaveIds, resources \in {OneCpu, OneMem} :
       offerResources(a, "f1", resources)

SpecRescind == Init /\ [][NextRescind]_vars

\* The resources of the first n offers of a sequence of offer ids.
RECURSIVE RecoveredBy(_, _)
RecoveredBy(ids, n) ==
  IF n = 0 THEN NoResources
  ELSE plus(RecoveredBy(ids, n - 1), offers[ids[n]].resources)

\* The step runs the rescind loop for operation id.
Rescinds(id) ==
  /\ id \in 1..opIds
  /\ operations[id].status = "authorizing"
  /\ operations'[id].status = "applying"

\* The offers that the step rescinded for operation id, in the order of
\* their rescinding, are each one that overlapped what the operation still
\* required after the earlier ones, and all but the last left the operation
\* short of resources.
RescindedAsNeeded(id) ==
  LET rescinded == operations'[id].rescinded
      payload == operations[id].request.call
      stillRequired(i) ==
        minus(requiredResources(payload), RecoveredBy(rescinded, i - 1))
  IN
  /\ Range(rescinded) \subseteq
       {o \in DOMAIN offers : offers[o].slave = payload.slave_id}
  /\ \A i \in 1..Len(rescinded) :
       /\ stillRequired(i) #
            minus(stillRequired(i), offers[rescinded[i]].resources)
       /\ i < Len(rescinded) =>
            ~contains(RecoveredBy(rescinded, i), requiredResources(payload))
       /\ \A j \in 1..Len(rescinded) : rescinded[j] = rescinded[i] => j = i

\* Every offer that the step did not rescind for operation id is as it was,
\* and each rescinded one is gone and was recovered to the allocator once.
RescindedOnce(id) ==
  LET rescinded == operations'[id].rescinded IN
  /\ DOMAIN offers' = (DOMAIN offers) \ Range(rescinded)
  /\ \A o \in DOMAIN offers' : offers'[o] = offers[o]
  /\ allocator' = allocator \o rescinded

\* C32: the rescind step of an operation rescinds an offer of the agent
\* only if it overlaps what is still required when it is visited, rescinds
\* none once the recovered resources suffice, leaves every other offer
\* outstanding, and recovers and removes each rescinded offer exactly once.
RescindOnlyNeeded ==
  /\ [](\A i, j \in 1..Len(allocator) : allocator[i] = allocator[j] => i = j)
  /\ [](\A i \in 1..Len(allocator) : allocator[i] \notin DOMAIN offers)
  /\ [][\A id \in 1..MaxOps :
          Rescinds(id) => RescindedAsNeeded(id) /\ RescindedOnce(id)]_vars

\* An operation that needs cpus and mem had one offer rescinded, and an
\* offer of the agent that overlaps what the operation needs is still
\* outstanding.
RescindOnlyNeededWitness ==
  \E id \in 1..opIds :
    /\ operations[id].status = "applying"
    /\ operations[id].request.call.resources = CpuAndMem
    /\ Len(operations[id].rescinded) = 1
    /\ \E o \in DOMAIN offers :
         /\ offers[o].slave = operations[id].request.call.slave_id
         /\ minus(CpuAndMem, offers[o].resources) # CpuAndMem

(***************************************************************************)
(* Batching of read requests: claims.                                      *)
(***************************************************************************)
\* The master actor is between two of its turns: it is not inside
\* processRequestsBatch.
BetweenTurns == ~processing

SpecBatchDispatched == SpecBatchFair /\ WF_vars(processRequestsBatch)

\* processRequestsBatch runs on a batch that is not empty, each request of
\* the batch is in it from the start of its processing, a response that is
\* ready stays so until the batch is cleared, and the batch is empty when
\* processRequestsBatch returns.
BatchProcessedOnce ==
  /\ [][~processing /\ processing' =>
          /\ batchedRequests # << >>
          /\ \A i \in 1..Len(batchedRequests) :
               batchedRequests[i].status = "queued"
               /\ batchedRequests'[i].status = "async"]_vars
  /\ [][processing /\ processing' =>
          /\ Len(batchedRequests') = Len(batchedRequests)
          /\ \A i \in 1..Len(batchedRequests) :
               batchedRequests[i].status = "ready" =>
                 batchedRequests'[i].status = "ready"]_vars
  /\ [][processing /\ ~processing' =>
          /\ \A i \in 1..Len(batchedRequests) :
               batchedRequests[i].status = "ready"
          /\ batchedRequests' = << >>]_vars

\* C34: every read request handed to deferBatchedRequest is processed in
\* one batch and its response is completed, once; processRequestsBatch
\* never runs on an empty batch, and the batch is empty when it returns.
ReadRequestsComplete ==
  /\ \A i \in 1..MaxBatch :
       (Len(batchedRequests) >= i /\ batchedRequests[i].status = "queued")
         ~> (Len(batchedRequests) >= i /\ batchedRequests[i].status = "ready")
  /\ (batchedRequests # << >>) ~> (batchedRequests = << >>)
  /\ BatchProcessedOnce

(***************************************************************************)
(* Machines going down and coming up under an authorizer whose rules let   *)
(* alice maintain every machine, bob machine m1 and an unauthenticated     *)
(* request none.                                                           *)
(***************************************************************************)
Approves(principal) ==
  IF principal = "alice" THEN MachineIds
  ELSE IF principal = "bob" THEN {"m1"}
  ELSE {}

MachinesRequestsOf(type, lists) ==
  {ApiRequest(principal, [type |-> type, machines |-> ids]) :
     principal \in {None, "alice", "bob"}, ids \in lists}

NextMachines ==
  \/ updateMaintenanceSchedule(
       ApiRequest("alice", [type |-> "UPDATE_MAINTENANCE_SCHEDULE",
                            schedule |-> <<Window(MachineIds, "tuesday")>>]))
  \/ \E request \in MachinesRequestsOf("START_MAINTENANCE",
                                       {<<"m1">>, <<"m1", "m2">>}) :
       machinesRequest("startMaintenance", request)
  \/ \E request \in MachinesRequestsOf("STOP_MAINTENANCE",
                                       {<<"m1", "m2">>}) :
       machinesRequest("stopMaintenance", request)
  \/ \E id \in 1..Len(maintenances) :
       approvers(id, Approves(maintenances[id].request.principal))
  \/ \E id \in 1..Len(maintenances) : registrarResult(id, "true")

SpecMachines == Init /\ [][NextMachines]_vars

\* The step is the continuation of START_MAINTENANCE or STOP_MAINTENANCE
\* number id that checks the named machines.
ChecksMachines(id) ==
  /\ id \in 1..Len(maintenances)
  /\ maintenances[id].op \in {"startMaintenance", "stopMaintenance"}
  /\ maintenances[id].status = "authorizing"
  /\ maintenances'[id].status # "authorizing"

\* Machine number i of request id is not in the mode the request needs.
WrongMode(id, i) ==
  machines[maintenances[id].request.call.machines[i]].mode #
    (IF maintenances[id].op = "startMaintenance" THEN "DRAINING" ELSE "DOWN")

\* Machine number i of request id is not approved.
NotApproved(id, i) ==
  maintenances[id].request.call.machines[i]
    \notin Approves(maintenances[id].request.principal)

\* The step submits nothing to the registrar, changes no machine and removes
\* no agent.
NothingStarted(id) ==
  /\ maintenances'[id].status = "rejected"
  /\ response'.request = maintenances[id].request
  /\ UNCHANGED <<machines, schedules, slaves, shutdowns>>

Listed == UNION {windowMachines(schedules[i]) : i \in 1..Len(schedules)}

\* C36: the stored schedule and the machine modes agree: the machines the
\* stored schedule lists are those in DRAINING or DOWN mode.
ScheduleAgreesWithModes ==
  Listed = {m \in MachineIds : machines[m].mode \in {"DRAINING", "DOWN"}}

(***************************************************************************)
(* Mark-agent-gone requests while the master also removes agents.          *)
(***************************************************************************)
\* Master::removeSlave: the master starts to remove a registered agent that
\* is in no other transition; the removal goes to the registrar.
removingSlave(slaveId) ==
  /\ ~aborted
  /\ registeredSlave(slaveId)
  /\ slaveId \notin slaveSets.markingGone \cup slaveSets.markingUnreachable
                      \cup slaveSets.removing
  /\ slaveSets' = [slaveSets EXCEPT !.removing = @ \cup {slaveId}]
  /\ response' = NoResponse
  /\ UNCHANGED <<goneCommits, marks>>
  /\ UNCHANGED <<operationVars, maintenanceVars, exceptGone>>

\* Master::_removeSlave: the registrar has removed the agent; it leaves the
\* registered agents with its offers.
_removeSlave(slaveId) ==
  /\ ~aborted
  /\ slaveId \in slaveSets.removing
  /\ slaveSets' = [slaveSets EXCEPT !.removing = @ \ {slaveId}]
  /\ slaves' = [slaves EXCEPT ![slaveId] = FALSE]
  /\ offers' = [o \in {o \in DOMAIN offers : offers[o].slave # slaveId} |->
                  offers[o]]
  /\ response' = NoResponse
  /\ UNCHANGED <<goneCommits, marks>>
  /\ UNCHANGED <<offerIds, operations, opIds, allocator, rescinds, applied,
                 authorizations>>
  /\ UNCHANGED <<maintenanceVars, exceptGone>>

NextGoneOrder ==
  \/ \E request \in MarkAgentGoneRequests, approved \in BOOLEAN :
       markAgentGone(request, approved)
  \/ \E request \in MarkAgentGoneRequests, result \in {"true"} :
       markAgentGoneResult(request, result)
  \/ \E a \in SlaveIds : markUnreachable(a)
  \/ \E a \in SlaveIds : markUnreachableResult(a)
  \/ \E a \in SlaveIds : removingSlave(a)
  \/ \E a \in SlaveIds : _removeSlave(a)

SpecGoneOrder == Init /\ [][NextGoneOrder]_vars

\* The agent is among the registered, the recovered or the unreachable
\* agents.
Present(a) ==
  \/ a \in SlaveIds /\ slaves[a]
  \/ a \in slaveSets.recovered
  \/ a \in slaveSets.unreachable

\* The answer that the preconditions of _markAgentGone give for agent a, 0
\* when none applies.
PreconditionCode(a) ==
  IF a \in slaveSets.gone THEN OK
  ELSE IF a \in slaveSets.markingGone THEN ServiceUnavailable
  ELSE IF a \in slaveSets.removing THEN ServiceUnavailable
  ELSE IF a \in slaveSets.markingUnreachable THEN ServiceUnavailable
  ELSE IF ~Present(a) THEN NotFound
  ELSE 0

\* The step is _markAgentGone for the request in response'.
MarksAgentGone ==
  /\ response'.op = "markAgentGone"
  /\ response'.code \notin {0, Forbidden}
  /\ goneCommits \subseteq goneCommits'

\* C37: _markAgentGone answers with the first precondition that applies, in
\* the order gone (200), being marked gone (503), being removed (503),
\* being marked unreachable (503), not present (404), and then submits
\* nothing to the registrar and leaves markingGone as it is; it submits an
\* agent to the registrar only when no precondition applies.
MarkGonePreconditions ==
  /\ [][MarksAgentGone =>
          /\ response'.code =
               PreconditionCode(response'.request.call.slave_id)
          /\ goneCommits' = goneCommits
          /\ slaveSets' = slaveSets]_vars
  /\ [][\A a \in goneCommits' \ goneCommits :
          /\ PreconditionCode(a) = 0
          /\ slaveSets'.markingGone = slaveSets.markingGone \cup {a}]_vars

\* A request for an agent that is gone, and no longer among the registered,
\* recovered or unreachable agents, was answered 200 and not 404.
MarkGonePreconditionsWitness ==
  /\ response.op = "markAgentGone"
  /\ response.code = OK
  /\ response.request.call.slave_id \in slaveSets.gone
  /\ ~Present(response.request.call.slave_id)
  /\ \E i \in 1..Len(marks[response.request.call.slave_id]) :
       /\ marks[response.request.call.slave_id][i].code = OK
       /\ ~marks[response.request.call.slave_id][i].inProgress

\* A request for an agent that is being removed was answered 503.
MarkGoneWhileRemoving ==
  /\ response.op = "markAgentGone"
  /\ response.code = ServiceUnavailable
  /\ response.request.call.slave_id \in slaveSets.removing

(***************************************************************************)
(* The volume profile adaptor: the mappings its polls fetch, and claims.   *)
(***************************************************************************)
ParameterMaps == {<<>>, [a |-> "1", b |-> "1"], [a |-> "1", b |-> "2"]}

ProfileInfos ==
  {[capability |-> MountCapability, parameters |-> <<>>]}
  \cup {[capability |-> BlockCapability, parameters |-> parameters] :
          parameters \in ParameterMaps}

\* The mappings a poll may fetch: the profile "fast" in any form, the
\* profile "slow" in one, each of them or none.
Mappings ==
  {mapping \in UNION {[names -> ProfileInfos] : names \in SUBSET ProfileNames} :
     "slow" \in DOMAIN mapping =>
       mapping["slow"] = [capability |-> BlockCapability,
                          parameters |-> <<>>]}

Fetches ==
  {NoFetched} \cup {[fetched |-> TRUE, parsed |-> mapping] :
                      mapping \in Mappings}

NextProfiles ==
  \/ \E knownProfiles \in {{}, {"fast"}} : watch(knownProfiles)
  \/ \E fetched \in Fetches, begin \in {"a", "b"}, outcome \in LoopOutcomes :
       _poll(fetched, begin, outcome)

SpecProfiles == Init /\ [][NextProfiles]_vars

\* The mapping drops or alters a profile of the data.
DropsOrAlters(mapping, data) ==
  \E profile \in DOMAIN data :
    profile \notin DOMAIN mapping \/ mapping[profile] # data[profile]

WatchCompletesOnChange ==
  \A i \in 1..Len(adaptor.watches) :
    IF adaptor.watches[i].state = "pending"
      THEN adaptor.watches[i].known = adaptor.profiles
    ELSE adaptor.watches[i].value # adaptor.watches[i].known

\* C40: the comparison of two parameter maps returns, true when the maps
\* have the same keys with the same values and false otherwise, and so the
\* processing of a fetched mapping ends.
ParametersEqualDecides ==
  /\ ~adaptor.hangs
  /\ \A comparison \in adaptor.compared :
       comparison.result =
         IF comparison.left = comparison.right THEN "true" ELSE "false"

====
